---- MODULE Spec2Model ----
(***************************************************************************)
(* Verification model of gpuport_collectors:                               *)
(*   - export/pipeline.py  execute_pipeline / execute_pipelines            *)
(*   - base.py             with_retry                                      *)
(*   - export/outputs.py   write_to_https, write_to_local, write_to_s3,    *)
(*                         _apply_filename_pattern                         *)
(* Each subsystem has its own specification over a shared variable tuple;  *)
(* the variables of the other subsystems stay at their idle values.        *)
(***************************************************************************)
EXTENDS Integers, Sequences, FiniteSets, TLC

None == "None"

\* ------------------------------------------------------------------ bounds
MaxPipelines == 2
MaxOutputs == 2

\* ================================================================ PIPELINE
VARIABLES
    instances,      \* len(instances) handed to execute_pipelines
    pipelines,      \* config.pipelines: sequence of PipelineConfig
    results,        \* the list execute_pipelines builds
    ppc,            \* position in execute_pipelines / execute_pipeline
    cur,            \* index of the pipeline_config being executed
    filtered,       \* len(filtered) of the running pipeline
    oi,             \* index of the output_config the output loop is at
    output_results, \* output_results of the running pipeline
    ptrace          \* history: stage and connector invocations, in order

pvars == <<instances, pipelines, results, ppc, cur, filtered, oi,
           output_results, ptrace>>

\* with_retry (base.py)
VARIABLES
    rcfg,           \* self.config: max_retries, base_delay, backoff_factor
    rpc,            \* position in wrapper
    attempt,        \* the for loop's attempt
    last_exception, \* last_exception
    rresult,        \* the value wrapper returned
    rraised,        \* the exception wrapper raised
    rtrace          \* history: calls of func and sleeps, in order

rvars == <<rcfg, rpc, attempt, last_exception, rresult, rraised, rtrace>>

\* write_to_https (export/outputs.py)
VARIABLES
    hcfg,                \* config: HTTPSOutputConfig
    hdata,               \* data: the payload handed in
    environ,             \* os.environ: the names that are set
    headers,             \* headers: what every request is sent with
    hpc,                 \* position in write_to_https
    batches,             \* batches
    batch_idx,           \* batch_idx of the batch loop (0-based)
    hattempt,            \* attempt of the retry loop
    last_error,          \* last_error
    total_items,
    total_requests,
    successful_requests,
    failed_requests,
    hresult,             \* the summary returned, or the error raised
    last_outcome,        \* history: class of the current batch's last outcome
    hlog                 \* history: requests, sleeps and batch ends, in order

hvars == <<hcfg, hdata, environ, headers, hpc, batches, batch_idx, hattempt, last_error,
           total_items, total_requests, successful_requests, failed_requests,
           hresult, last_outcome, hlog>>

\* _apply_filename_pattern (export/outputs.py)
VARIABLES
    npattern,       \* pattern
    nmeta,          \* metadata, as the list of its items
    npc,            \* position in _apply_filename_pattern
    nresult         \* the filename returned, or the error raised

nvars == <<npattern, nmeta, npc, nresult>>

\* write_to_local and write_to_s3 (export/outputs.py)
VARIABLES
    lcfg,           \* config: LocalOutputConfig or S3OutputConfig
    lmeta,          \* metadata, as the list of its items
    ldata,          \* data, as the chunks it is written in
    fs,             \* the file system: resolved path -> directory or file
    bucket,         \* the keys put into the S3 bucket
    lpc,            \* position in write_to_local / _write_atomic / _write_gzip
    output_path,    \* output_path
    temp_path,      \* temp_path
    lresult,        \* the path returned, or the error raised
    fs0,            \* history: the file system when the call started
    lfault          \* history: the step that failed

lvars == <<lcfg, lmeta, ldata, fs, bucket, lpc, output_path, temp_path, lresult,
           fs0, lfault>>

\* filter_instances (export/filters.py)
VARIABLES
    finstances,     \* instances: the list handed to filter_instances
    filters,        \* filters: list of FilterConfig
    fpc,            \* position in filter_instances
    fidx,           \* index of the instance the loop is at (1-based)
    ffiltered,      \* filtered
    fresult         \* the list returned, or the error raised

fvars == <<finstances, filters, fpc, fidx, ffiltered, fresult>>

\* transform_to_metrics (export/transformers.py)
VARIABLES
    minstances,     \* instances
    mcfg,           \* metric_config: MetricConfig
    mpc,            \* position in the metric's computation
    mresult         \* metrics_data[metric_config.name], or the error raised

mvars == <<minstances, mcfg, mpc, mresult>>

\* transform_to_json (export/transformers.py)
VARIABLES
    jinstances,     \* instances
    jcfg,           \* config: JSONTransformerConfig
    jpc,            \* position in transform_to_json
    jdata,          \* data: the list of dictionaries
    jresult         \* what json.dumps was given and with what options

jvars == <<jinstances, jcfg, jpc, jdata, jresult>>

\* RunPodCollector.fetch_instances (collectors/runpod.py)
VARIABLES
    ccfg,                \* gpu types and datacenters of the API, config.max_retries
    cpc,                 \* position in fetch_instances under with_retry
    calls,               \* history: invocations of fetch_instances by with_retry
    tstate,              \* per pricing task: created, waiting, inflight, done, failed
    semaphore,           \* self._semaphore._value
    waiters,             \* self._semaphore._waiters, in order
    gpu_pricing_results, \* what each pricing task returned
    reordered,           \* history: a task completed before an earlier one
    cresult              \* the instances returned, or the error raised

cvars == <<ccfg, cpc, calls, tstate, semaphore, waiters, gpu_pricing_results,
           reordered, cresult>>

\* two calls of write_to_local on one target path (export/outputs.py)
VARIABLES
    wcfg,           \* config: LocalOutputConfig, shared by the two calls
    wdata,          \* data of each writer, as the number of chunks written
    links,          \* the output directory: name -> inode, 0 when absent
    inodes,         \* the content of every inode
    wpc,            \* position of each writer in write_to_local
    wfd,            \* the open temp file of each writer: inode and offset
    werror          \* the error each writer raised

wvars == <<wcfg, wdata, links, inodes, wpc, wfd, werror>>

vars == <<pvars, rvars, hvars, nvars, lvars, fvars, mvars, jvars, cvars, wvars>>

notPipeline == <<rvars, hvars, nvars, lvars, fvars, mvars, jvars, cvars, wvars>>
notRetry == <<pvars, hvars, nvars, lvars, fvars, mvars, jvars, cvars, wvars>>
notHttps == <<pvars, rvars, nvars, lvars, fvars, mvars, jvars, cvars, wvars>>
notNaming == <<pvars, rvars, hvars, lvars, fvars, mvars, jvars, cvars, wvars>>
notLocal == <<pvars, rvars, hvars, nvars, fvars, mvars, jvars, cvars, wvars>>
notFilter == <<pvars, rvars, hvars, nvars, lvars, mvars, jvars, cvars, wvars>>
notMetrics == <<pvars, rvars, hvars, nvars, lvars, fvars, jvars, cvars, wvars>>
notJson == <<pvars, rvars, hvars, nvars, lvars, fvars, mvars, cvars, wvars>>
notRunPod == <<pvars, rvars, hvars, nvars, lvars, fvars, mvars, jvars, wvars>>
notWriters == <<pvars, rvars, hvars, nvars, lvars, fvars, mvars, jvars, cvars>>

TransformerTypes == <<"json", "csv", "metrics">>
OutputTypes == <<"local", "s3", "https">>
InstanceCounts == {0, 2}

\* the output lists of the configurations explored: n outputs whose
\* connector types cycle through local, s3, https
OutputsOfLen(n) ==
    [j \in 1..n |-> [type |-> OutputTypes[((j - 1) % 3) + 1], name |-> j]]

\* the configurations explored: enabled or not, with or without filters, 0
\* to MaxOutputs outputs, the transformer type cycling with the number of
\* outputs; the name of a pipeline (unique in a configuration) is added in
\* PipelineStart
PipelineConfigs ==
    {[enabled |-> en, filters |-> f, transformer |-> TransformerTypes[(n % 3) + 1],
      outputs |-> OutputsOfLen(n)] :
        en \in BOOLEAN, f \in {0, 1}, n \in 0..MaxOutputs}

\* PipelineResult.success
Success(r) == r.error = None

\* PipelineResult.successful_outputs
RECURSIVE CountSuccess(_)
CountSuccess(outs) ==
    IF outs = <<>> THEN 0
    ELSE (IF Head(outs).success THEN 1 ELSE 0) + CountSuccess(Tail(outs))

SuccessfulOutputs(r) == CountSuccess(r.outputs)

\* PipelineResult.failed_outputs
RECURSIVE CountFailed(_)
CountFailed(outs) ==
    IF outs = <<>> THEN 0
    ELSE (IF ~Head(outs).success THEN 1 ELSE 0) + CountFailed(Tail(outs))

FailedOutputs(r) == CountFailed(r.outputs)

PipelineResult(name, enabled, input_count, filtered_count, output_count, outputs, error) ==
    [pipeline_name |-> name, enabled |-> enabled, input_count |-> input_count,
     filtered_count |-> filtered_count, output_count |-> output_count,
     outputs |-> outputs, error |-> error]

PipelineStart ==
    /\ instances \in InstanceCounts
    /\ pipelines \in UNION {{[i \in 1..n |-> [name |-> i] @@ f[i]] :
                                 f \in [1..n -> PipelineConfigs]} :
                              n \in 0..MaxPipelines}
    /\ results = <<>>
    /\ ppc = "loop"
    /\ cur = 1
    /\ filtered = 0
    /\ oi = 1
    /\ output_results = <<>>
    /\ ptrace = <<>>

IdlePipeline ==
    /\ instances = 0
    /\ pipelines = <<>>
    /\ results = <<>>
    /\ ppc = "idle"
    /\ cur = 1
    /\ filtered = 0
    /\ oi = 1
    /\ output_results = <<>>
    /\ ptrace = <<>>

Event(op, p, o, ok) == [op |-> op, p |-> p, o |-> o, ok |-> ok]

\* execute_pipelines loop header and execute_pipeline entry, enabled pipeline
EnterPipeline ==
    /\ ppc = "loop"
    /\ cur <= Len(pipelines)
    /\ pipelines[cur].enabled
    /\ ppc' = "filter"
    /\ UNCHANGED <<notPipeline, instances, pipelines, results, cur, filtered, oi,
                   output_results, ptrace>>

\* the enabled flag is looked at after the filter stage (for comparison)
SkipDisabledAfterFilter ==
    /\ ppc = "loop"
    /\ cur <= Len(pipelines)
    /\ ~pipelines[cur].enabled
    /\ ptrace' = Append(ptrace, Event("filter", cur, 0, TRUE))
    /\ results' = Append(results,
           PipelineResult(pipelines[cur].name, FALSE, instances, 0, 0, <<>>, None))
    /\ cur' = cur + 1
    /\ UNCHANGED <<notPipeline, instances, pipelines, ppc, filtered, oi, output_results>>

\* the early return reports no input either (for comparison)
SkipDisabledZeroInput ==
    /\ ppc = "loop"
    /\ cur <= Len(pipelines)
    /\ ~pipelines[cur].enabled
    /\ results' = Append(results,
           PipelineResult(pipelines[cur].name, FALSE, 0, 0, 0, <<>>, None))
    /\ cur' = cur + 1
    /\ UNCHANGED <<notPipeline, instances, pipelines, ppc, filtered, oi, output_results,
                   ptrace>>

\* execute_pipeline on a disabled pipeline: early return, result appended
SkipDisabled ==
    /\ ppc = "loop"
    /\ cur <= Len(pipelines)
    /\ ~pipelines[cur].enabled
    /\ results' = Append(results,
           PipelineResult(pipelines[cur].name, FALSE, instances, 0, 0, <<>>, None))
    /\ cur' = cur + 1
    /\ UNCHANGED <<notPipeline, instances, pipelines, ppc, filtered, oi, output_results,
                   ptrace>>

\* the outer except handler of execute_pipeline
PipelineLevelFailure(e) ==
    /\ results' = Append(results,
           PipelineResult(pipelines[cur].name, TRUE, instances, 0, 0, <<>>, e))
    /\ cur' = cur + 1
    /\ ppc' = "loop"
    /\ UNCHANGED <<notPipeline, instances, pipelines, filtered, oi, output_results>>

\* Step 1: filter instances (filter_instances is only called with filters)
FilterStage ==
    /\ ppc = "filter"
    /\ IF pipelines[cur].filters = 0
       THEN /\ filtered' = instances
            /\ ppc' = "transform"
            /\ UNCHANGED <<notPipeline, instances, pipelines, results, cur, oi,
                           output_results, ptrace>>
       ELSE \/ \E n \in 0..instances :
                 /\ filtered' = n
                 /\ ppc' = "transform"
                 /\ ptrace' = Append(ptrace, Event("filter", cur, 0, TRUE))
                 /\ UNCHANGED <<notPipeline, instances, pipelines, results, cur, oi,
                                output_results>>
            \/ /\ ptrace' = Append(ptrace, Event("filter", cur, 0, FALSE))
               /\ PipelineLevelFailure("FilterError")

\* Step 2: transform data
TransformStage ==
    /\ ppc = "transform"
    /\ IF pipelines[cur].transformer \in {"json", "csv", "metrics"}
       THEN \/ /\ ptrace' = Append(ptrace, Event("transform", cur, 0, TRUE))
               /\ ppc' = "outputs"
               /\ oi' = 1
               /\ output_results' = <<>>
               /\ UNCHANGED <<notPipeline, instances, pipelines, results, cur, filtered>>
            \/ /\ ptrace' = Append(ptrace, Event("transform", cur, 0, FALSE))
               /\ PipelineLevelFailure("TransformerError")
       ELSE /\ ptrace' = Append(ptrace, Event("transform", cur, 0, FALSE))
            /\ PipelineLevelFailure("PipelineError")

\* the entry appended after a connector returned
OutputSuccessEntry(oc) == [type |-> oc.type, name |-> oc.name, success |-> TRUE]

\* the entry appended by the inner except handler
OutputFailureEntry(oc) == [type |-> oc.type, name |-> oc.name, success |-> FALSE]

\* no inner except handler: a failed output propagates to the outer handler
\* (for comparison)
WriteOutputPropagating ==
    /\ ppc = "outputs"
    /\ oi <= Len(pipelines[cur].outputs)
    /\ \/ /\ ptrace' = Append(ptrace, Event("write", cur, oi, TRUE))
          /\ output_results' =
                 Append(output_results, OutputSuccessEntry(pipelines[cur].outputs[oi]))
          /\ oi' = oi + 1
          /\ UNCHANGED <<notPipeline, instances, pipelines, results, ppc, cur, filtered>>
       \/ /\ ptrace' = Append(ptrace, Event("write", cur, oi, FALSE))
          /\ PipelineLevelFailure("OutputError")

\* the inner except handler records the failure and leaves the output loop
\* (for comparison)
WriteOutputBreaking ==
    /\ ppc = "outputs"
    /\ oi <= Len(pipelines[cur].outputs)
    /\ \E ok \in BOOLEAN :
         /\ ptrace' = Append(ptrace, Event("write", cur, oi, ok))
         /\ output_results' = Append(output_results,
                IF ok THEN OutputSuccessEntry(pipelines[cur].outputs[oi])
                      ELSE OutputFailureEntry(pipelines[cur].outputs[oi]))
         /\ oi' = IF ok THEN oi + 1 ELSE Len(pipelines[cur].outputs) + 1
    /\ UNCHANGED <<notPipeline, instances, pipelines, results, ppc, cur, filtered>>

\* Step 3, one iteration of the output loop: the connector for the output's
\* type is called; it returns or raises
WriteOutput ==
    /\ ppc = "outputs"
    /\ oi <= Len(pipelines[cur].outputs)
    /\ \E ok \in BOOLEAN :
         /\ ptrace' = Append(ptrace, Event("write", cur, oi, ok))
         /\ output_results' = Append(output_results,
                IF ok THEN OutputSuccessEntry(pipelines[cur].outputs[oi])
                      ELSE OutputFailureEntry(pipelines[cur].outputs[oi]))
    /\ oi' = oi + 1
    /\ UNCHANGED <<notPipeline, instances, pipelines, results, ppc, cur, filtered>>

\* after the output loop: the PipelineResult is returned and appended
ReturnResult ==
    /\ ppc = "outputs"
    /\ oi > Len(pipelines[cur].outputs)
    /\ results' = Append(results,
           PipelineResult(pipelines[cur].name, TRUE, instances, filtered,
                          Len(output_results), output_results, None))
    /\ cur' = cur + 1
    /\ ppc' = "loop"
    /\ UNCHANGED <<notPipeline, instances, pipelines, filtered, oi, output_results, ptrace>>

\* execute_pipelines stops at the first pipeline that did not succeed
\* (for comparison)
ExecutePipelinesReturnStopping ==
    /\ ppc = "loop"
    /\ \/ cur > Len(pipelines)
       \/ /\ results # <<>>
          /\ LET r == results[Len(results)]
             IN r.enabled /\ (r.error # None \/ FailedOutputs(r) > 0)
    /\ ppc' = "returned"
    /\ UNCHANGED <<notPipeline, instances, pipelines, results, cur, filtered, oi,
                   output_results, ptrace>>

\* execute_pipelines: the loop is exhausted, results is returned
ExecutePipelinesReturn ==
    /\ ppc = "loop"
    /\ cur > Len(pipelines)
    /\ ppc' = "returned"
    /\ UNCHANGED <<notPipeline, instances, pipelines, results, cur, filtered, oi,
                   output_results, ptrace>>

NextPipeline ==
    \/ EnterPipeline
    \/ SkipDisabled
    \/ FilterStage
    \/ TransformStage
    \/ WriteOutput
    \/ ReturnResult
    \/ ExecutePipelinesReturn

\* ============================================================== WITH_RETRY
MaxRetries == 3
BaseDelays == {1, 5}
BackoffFactors == {1, 2, 3}
ExcTypes == {"ConnectionError", "TimeoutError"}

RECURSIVE Pow(_, _)
\* b ** e
Pow(b, e) == IF e = 0 THEN 1 ELSE b * Pow(b, e - 1)

\* the exponent counts the retry instead of the attempt (for comparison)
RetryDelayNextExponent(base_delay, backoff_factor, a) ==
    base_delay * Pow(backoff_factor, a + 1)

\* delay = base_delay * (self.config.backoff_factor**attempt)
RetryDelay(base_delay, backoff_factor, a) == base_delay * Pow(backoff_factor, a)

\* > instead of >= (for comparison)
IsLastAttemptOffByOne(a, max_retries) == a > max_retries

\* if attempt >= self.config.max_retries
IsLastAttempt(a, max_retries) == a >= max_retries

\* the caught exception wrapped in a new error (for comparison)
RaiseWrapped(e) == [type |-> "RuntimeError", id |-> e.id, cause |-> e]

\* the bare raise of the except block: the caught exception itself
Reraise(e) == e

CallEvent(n, ok, out) == [ev |-> "call", n |-> n, ok |-> ok, out |-> out]
SleepEvent(d) == [ev |-> "sleep", n |-> 0, ok |-> FALSE, out |-> d]

RCalls == SelectSeq(rtrace, LAMBDA e : e.ev = "call")
RSleeps == SelectSeq(rtrace, LAMBDA e : e.ev = "sleep")

RetryStart ==
    /\ rcfg \in [max_retries : 0..MaxRetries, base_delay : BaseDelays,
                 backoff_factor : BackoffFactors]
    /\ rpc = "call"
    /\ attempt = 0
    /\ last_exception = None
    /\ rresult = None
    /\ rraised = None
    /\ rtrace = <<>>

IdleRetry ==
    /\ rcfg = [max_retries |-> 0, base_delay |-> 1, backoff_factor |-> 1]
    /\ rpc = "idle"
    /\ attempt = 0
    /\ last_exception = None
    /\ rresult = None
    /\ rraised = None
    /\ rtrace = <<>>

\* return await func(...): the call returns a value, wrapper returns it
InvokeReturns ==
    /\ rpc = "call"
    /\ attempt \in 0..rcfg.max_retries
    /\ LET n == Len(RCalls) + 1
           v == [type |-> "value", id |-> n]
       IN /\ rtrace' = Append(rtrace, CallEvent(n, TRUE, v))
          /\ rresult' = v
    /\ rpc' = "returned"
    /\ UNCHANGED <<notRetry, rcfg, attempt, last_exception, rraised>>

\* await func(...) raises: the except block re-raises on the last attempt
\* and goes on to sleep otherwise
InvokeRaises ==
    /\ rpc = "call"
    /\ attempt \in 0..rcfg.max_retries
    /\ \E t \in ExcTypes :
         LET n == Len(RCalls) + 1
             e == [type |-> t, id |-> n]
         IN /\ rtrace' = Append(rtrace, CallEvent(n, FALSE, e))
            /\ last_exception' = e
            /\ IF IsLastAttempt(attempt, rcfg.max_retries)
               THEN /\ rpc' = "raised"
                    /\ rraised' = Reraise(e)
               ELSE /\ rpc' = "sleep"
                    /\ UNCHANGED rraised
    /\ UNCHANGED <<notRetry, rcfg, attempt, rresult>>

\* await asyncio.sleep(delay), then the next iteration of the for loop
Sleep ==
    /\ rpc = "sleep"
    /\ rtrace' = Append(rtrace,
           SleepEvent(RetryDelay(rcfg.base_delay, rcfg.backoff_factor, attempt)))
    /\ attempt' = attempt + 1
    /\ rpc' = "call"
    /\ UNCHANGED <<notRetry, rcfg, last_exception, rresult, rraised>>

NextRetry ==
    \/ InvokeReturns
    \/ InvokeRaises
    \/ Sleep

\* ========================================================== WRITE_TO_HTTPS
MaxItems == 3
MaxBatchSize == 2
MaxRetryAttempts == 2
BatchDelays == {0, 1}
\* (retry_delay, retry_backoff) pairs explored
RetryPolicies == {<<1, 2>>, <<5, 3>>}
Statuses == {200, 404, 500}
RetryOnStatusChoices == {{}, {500}}

\* batch_size None and batch_size 0 are both falsy and take the same branch:
\* NoBatchSize stands for either
NoBatchSize == 0

\* A header value is a sequence of tokens: "$", "{" and "}" are the
\* characters the code looks at, any other token is a run of other
\* characters.
Header(name, value) == [name |-> name, value |-> value]

\* config.headers as the list of its items; None and {} are the empty list
HeaderChoices ==
    { <<>>,
      <<Header("Authorization", <<"$", "{", "TOKEN", "}">>)>>,
      <<Header("Authorization", <<"Bearer ", "$", "{", "TOKEN", "}">>)>>,
      <<Header("Content-Type", <<"text/plain">>),
        Header("X-API-Key", <<"$", "{", "TOKEN", "}">>)>> }

HttpsConfig(bs, bd, ra, rp, ros, hs) ==
    [batch_size |-> bs, batch_delay |-> bd, retry_attempts |-> ra,
     retry_delay |-> rp[1], retry_backoff |-> rp[2], retry_on_status |-> ros,
     headers |-> hs]

\* The headers are resolved before, and independently of, batching and
\* retrying: every batching and retry configuration is explored without
\* headers, every header choice with the batch sizes and one retry policy.
HttpsConfigs ==
    {HttpsConfig(bs, bd, ra, rp, ros, <<>>) :
        bs \in 0..MaxBatchSize, bd \in BatchDelays, ra \in 0..MaxRetryAttempts,
        rp \in RetryPolicies, ros \in RetryOnStatusChoices}
    \cup {HttpsConfig(bs, 0, 0, <<1, 2>>, {500}, hs) :
        bs \in 0..MaxBatchSize, hs \in HeaderChoices}

\* the names a header value refers to as ${name}, anywhere in the value
ReferencedNames(value) ==
    {SubSeq(value, i + 2, j - 1) : <<i, j>> \in
        {p \in (1..Len(value)) \X (1..Len(value)) :
            /\ p[1] + 2 <= p[2]
            /\ value[p[1]] = "$" /\ value[p[1] + 1] = "{" /\ value[p[2]] = "}"
            /\ \A k \in (p[1] + 2)..(p[2] - 1) : value[k] # "}"}}

\* os.environ is read only through the header references: the states of the
\* environment are the sets of referenced names that are set
Environs(cfg) ==
    SUBSET (UNION {ReferencedNames(cfg.headers[i].value) : i \in 1..Len(cfg.headers)})

\* os.environ.get(env_var) of a name that is set
EnvValue(name) == <<"secret">>

\* value.startswith("${") and value.endswith("}")
IsEnvReference(value) ==
    /\ Len(value) >= 2 /\ value[1] = "$" /\ value[2] = "{"
    /\ value[Len(value)] = "}"

\* env_var = value[2:-1]
EnvVarOf(value) == SubSeq(value, 3, Len(value) - 1)

\* the header loop raises: some value is a reference to a name that
\* os.environ.get() does not find
MissingEnvVar(hs, env) ==
    \E i \in 1..Len(hs) :
        IsEnvReference(hs[i].value) /\ EnvVarOf(hs[i].value) \notin env

\* the header loop: a reference becomes the variable's value, any other
\* value is copied
SubstituteHeaders(hs, env) ==
    [i \in 1..Len(hs) |->
        IF IsEnvReference(hs[i].value)
        THEN Header(hs[i].name, EnvValue(EnvVarOf(hs[i].value)))
        ELSE hs[i]]

\* if "Content-Type" not in headers: headers["Content-Type"] = "application/json"
WithContentType(hs) ==
    IF \E i \in 1..Len(hs) : hs[i].name = "Content-Type"
    THEN hs
    ELSE Append(hs, Header("Content-Type", <<"application/json">>))

\* data: text that is not JSON, a bare JSON object, or a JSON list of n items
HttpsData ==
    {[kind |-> "invalid", n |-> 0], [kind |-> "object", n |-> 1]}
        \cup {[kind |-> "list", n |-> k] : k \in 0..MaxItems}

\* items = json.loads(data); a non-list is wrapped in a list
ParseItems(data) ==
    IF data.kind = "object" THEN <<"object">> ELSE [i \in 1..data.n |-> i]

\* batch_size = config.batch_size if config.batch_size else len(items)
BatchSize(cfg, items) ==
    IF cfg.batch_size # NoBatchSize THEN cfg.batch_size ELSE Len(items)

\* [items[i : i + batch_size] for i in range(0, len(items), batch_size)]
Batches(items, batch_size) ==
    [k \in 1..((Len(items) + batch_size - 1) \div batch_size) |->
        SubSeq(items, (k - 1) * batch_size + 1,
               IF k * batch_size < Len(items) THEN k * batch_size ELSE Len(items))]

\* the delay is slept before every batch (for comparison)
ShouldDelayBatchAlways(idx, batch_delay) == batch_delay > 0

\* if batch_idx > 0 and config.batch_delay > 0
ShouldDelayBatch(idx, batch_delay) == idx > 0 /\ batch_delay > 0

\* the exponent counts the retry instead of the attempt (for comparison)
HttpsRetryDelayNextExponent(cfg, a) == cfg.retry_delay * Pow(cfg.retry_backoff, a + 1)

\* delay = config.retry_delay * (config.retry_backoff**attempt)
HttpsRetryDelay(cfg, a) == cfg.retry_delay * Pow(cfg.retry_backoff, a)

\* response.raise_for_status() raises for 4xx and 5xx
IsErrorStatus(status) == status >= 400 /\ status < 600

\* what one request can do: answer with a status, fail in transport
\* (httpx.RequestError), or raise something else
Outcomes ==
    {[kind |-> "response", status |-> st] : st \in Statuses}
        \cup {[kind |-> "transport", status |-> 0], [kind |-> "other", status |-> 0]}

\* the class of an outcome under a configuration
OutcomeClass(o, cfg) ==
    CASE o.kind = "transport" -> "transport"
      [] o.kind = "other" -> "other"
      [] o.status \in cfg.retry_on_status -> "retry_status"
      [] IsErrorStatus(o.status) -> "http_error"
      [] OTHER -> "ok"

Handled(counted, err, sleep, succ, fail, ctl) ==
    [counted |-> counted, err |-> err, sleep |-> sleep, succ |-> succ,
     fail |-> fail, ctl |-> ctl]

\* an exhausted batch raises instead of being counted (for comparison)
HandleRaisingOnExhaustion(o, a, cfg) ==
    CASE o.kind = "other" -> Handled(0, "keep", <<>>, 0, 0, "abort")
      [] OTHER ->
           IF OutcomeClass(o, cfg) = "ok"
           THEN Handled(1, "keep", <<>>, 1, 0, "break")
           ELSE IF a < cfg.retry_attempts
                THEN Handled(IF o.kind = "response" THEN 1 ELSE 0, "error",
                             <<HttpsRetryDelay(cfg, a)>>, 0, 0, "continue")
                ELSE Handled(IF o.kind = "response" THEN 1 ELSE 0, "error",
                             <<>>, 0, 0, "abort")

\* the body of the retry loop for one request: whether total_requests counts
\* it, what last_error becomes, the delays slept, what is added to
\* successful_requests and failed_requests, and how the loop goes on
Handle(o, a, cfg) ==
    CASE o.kind = "response" /\ o.status \in cfg.retry_on_status ->
           IF a < cfg.retry_attempts
           THEN Handled(1, "HTTP status", <<HttpsRetryDelay(cfg, a)>>, 0, 0, "continue")
           ELSE Handled(1, "HTTP status", <<>>, 0, 1, "break")
      [] o.kind = "response" /\ o.status \notin cfg.retry_on_status
                             /\ IsErrorStatus(o.status) ->
           IF a < cfg.retry_attempts
           THEN Handled(1, "HTTP error", <<HttpsRetryDelay(cfg, a)>>, 0, 0, "continue")
           ELSE Handled(1, "HTTP error", <<>>, 0, 1, "continue")
      [] o.kind = "response" /\ o.status \notin cfg.retry_on_status
                             /\ ~IsErrorStatus(o.status) ->
           Handled(1, "keep", <<>>, 1, 0, "break")
      [] o.kind = "transport" ->
           IF a < cfg.retry_attempts
           THEN Handled(0, "Request error", <<HttpsRetryDelay(cfg, a)>>, 0, 0, "continue")
           ELSE Handled(0, "Request error", <<>>, 0, 1, "continue")
      [] OTHER -> Handled(0, "keep", <<>>, 0, 0, "abort")

HEvent(ev, b, x) == [ev |-> ev, b |-> b, x |-> x]

HttpsStart ==
    /\ hcfg \in HttpsConfigs
    /\ hdata \in HttpsData
    /\ environ \in Environs(hcfg)
    /\ headers = <<>>
    /\ hpc = "start"
    /\ batches = <<>>
    /\ batch_idx = 0
    /\ hattempt = 0
    /\ last_error = None
    /\ total_items = 0
    /\ total_requests = 0
    /\ successful_requests = 0
    /\ failed_requests = 0
    /\ hresult = None
    /\ last_outcome = None
    /\ hlog = <<>>

IdleHttps ==
    /\ hcfg = [batch_size |-> NoBatchSize, batch_delay |-> 0, retry_attempts |-> 0,
               retry_delay |-> 1, retry_backoff |-> 2, retry_on_status |-> {},
               headers |-> <<>>]
    /\ hdata = [kind |-> "list", n |-> 0]
    /\ environ = {}
    /\ headers = <<>>
    /\ hpc = "idle"
    /\ batches = <<>>
    /\ batch_idx = 0
    /\ hattempt = 0
    /\ last_error = None
    /\ total_items = 0
    /\ total_requests = 0
    /\ successful_requests = 0
    /\ failed_requests = 0
    /\ hresult = None
    /\ last_outcome = None
    /\ hlog = <<>>

HttpsRaised(cause) == [kind |-> "raised", error |-> "OutputError", cause |-> cause]

\* parse the payload, zero the counters, build the headers and split the
\* items into batches; a payload that is not JSON, a reference to a variable
\* that is not set and the zero step of range() all end in OutputError
HttpsPrepare ==
    /\ hpc = "start"
    /\ IF hdata.kind = "invalid"
       THEN /\ hpc' = "raised"
            /\ hresult' = HttpsRaised("JSONDecodeError")
            /\ UNCHANGED <<batches, total_items, headers>>
       ELSE LET items == ParseItems(hdata)
                batch_size == BatchSize(hcfg, items)
            IN /\ total_items' = Len(items)
               /\ IF MissingEnvVar(hcfg.headers, environ)
                  THEN /\ hpc' = "raised"
                       /\ hresult' = HttpsRaised("OutputError")
                       /\ UNCHANGED <<batches, headers>>
                  ELSE /\ headers' = WithContentType(
                                         SubstituteHeaders(hcfg.headers, environ))
                       /\ IF batch_size = 0
                          THEN /\ hpc' = "raised"
                               /\ hresult' = HttpsRaised("ValueError")
                               /\ UNCHANGED batches
                          ELSE /\ batches' = Batches(items, batch_size)
                               /\ hpc' = "batch"
                               /\ UNCHANGED hresult
    /\ UNCHANGED <<notHttps, hcfg, hdata, environ, batch_idx, hattempt, last_error,
                   total_requests, successful_requests, failed_requests,
                   last_outcome, hlog>>

\* head of the batch loop: the delay between batches, then the retry loop
\* starts with last_error = None and attempt 0
BatchStart ==
    /\ hpc = "batch"
    /\ batch_idx < Len(batches)
    /\ hlog' = IF ShouldDelayBatch(batch_idx, hcfg.batch_delay)
               THEN Append(hlog, HEvent("batch_delay", batch_idx, hcfg.batch_delay))
               ELSE hlog
    /\ last_error' = None
    /\ hattempt' = 0
    /\ last_outcome' = None
    /\ hpc' = "request"
    /\ UNCHANGED <<notHttps, hcfg, hdata, environ, headers, batches, batch_idx, total_items,
                   total_requests, successful_requests, failed_requests,
                   hresult>>

\* one iteration of the retry loop: the request, the handling of its
\* outcome including the backoff sleep, and the step to the next attempt or
\* the next batch
SendRequest ==
    /\ hpc = "request"
    /\ \E o \in Outcomes :
         LET h == Handle(o, hattempt, hcfg)
             again == h.ctl = "continue" /\ hattempt + 1 <= hcfg.retry_attempts
             cls == OutcomeClass(o, hcfg)
         IN /\ total_requests' = total_requests + h.counted
            /\ last_error' = IF h.err = "keep" THEN last_error ELSE h.err
            /\ successful_requests' = successful_requests + h.succ
            /\ failed_requests' = failed_requests + h.fail
            /\ last_outcome' = cls
            /\ hlog' = hlog \o <<HEvent("req", batch_idx, hattempt)>>
                   \o (IF h.sleep # <<>>
                       THEN <<HEvent("retry_sleep", batch_idx, h.sleep[1])>> ELSE <<>>)
                   \o (IF h.ctl # "abort" /\ ~again
                       THEN <<HEvent("batch_end", batch_idx,
                                     IF cls = "ok" THEN "success" ELSE "exhausted")>>
                       ELSE <<>>)
            /\ IF h.ctl = "abort"
               THEN /\ hpc' = "raised"
                    /\ hresult' = HttpsRaised("Exception")
                    /\ UNCHANGED <<hattempt, batch_idx>>
               ELSE IF again
               THEN /\ hattempt' = hattempt + 1
                    /\ UNCHANGED <<hpc, hresult, batch_idx>>
               ELSE /\ batch_idx' = batch_idx + 1
                    /\ hpc' = "batch"
                    /\ UNCHANGED <<hattempt, hresult>>
    /\ UNCHANGED <<notHttps, hcfg, hdata, environ, headers, batches, total_items>>

\* the batch loop is exhausted: the summary is returned
HttpsReturn ==
    /\ hpc = "batch"
    /\ batch_idx >= Len(batches)
    /\ hresult' = [kind |-> "returned",
                   total_requests |-> total_requests,
                   successful_requests |-> successful_requests,
                   failed_requests |-> failed_requests,
                   total_items |-> total_items]
    /\ hpc' = "returned"
    /\ UNCHANGED <<notHttps, hcfg, hdata, environ, headers, batches, batch_idx, hattempt,
                   last_error, total_items, total_requests,
                   successful_requests, failed_requests, last_outcome,
                   hlog>>

NextHttps ==
    \/ HttpsPrepare
    \/ BatchStart
    \/ SendRequest
    \/ HttpsReturn

\* ================================================ _APPLY_FILENAME_PATTERN
\* A text is a sequence of tokens. The characters the code looks at ("{",
\* "}", "/", "\\", ".") and the characters of a metadata value are tokens
\* of their own; any other token ("provider", "00") is a run of characters
\* that are none of those.
MaxValueLen == 2

\* str.isalnum() is true of ASCII letters and digits and of the letters and
\* digits of every other script
\* (two ASCII characters and one other letter stand for them)
AsciiAlnum == {"a", "7"}
\* "e'" is the letter e with acute accent (U+00E9)
OtherAlnum == {"e'"}
ValueChars == AsciiAlnum \cup OtherAlnum \cup {"-", "_", ".", "/", "\\", " "}

Texts(chars, n) == UNION {[1..k -> chars] : k \in 0..n}

IsAlnum(c) == c \in AsciiAlnum \cup OtherAlnum

\* s.replace(old, new): the occurrences of old, left to right, not
\* overlapping
RECURSIVE Replace(_, _, _)
Replace(s, old, new) ==
    IF Len(s) < Len(old) THEN s
    ELSE IF SubSeq(s, 1, Len(old)) = old
         THEN new \o Replace(SubSeq(s, Len(old) + 1, Len(s)), old, new)
         ELSE <<Head(s)>> \o Replace(Tail(s), old, new)

\* the character filter of the last line of _sanitize_path_component
KeepSafe(t) ==
    [i \in 1..Len(t) |-> IF IsAlnum(t[i]) \/ t[i] \in {"-", "_", "."} THEN t[i] ELSE "_"]

\* the parent directory references are left in (for comparison)
SanitizeKeepingDotDot(value) ==
    KeepSafe(Replace(Replace(value, <<"/">>, <<"_">>), <<"\\">>, <<"_">>))

\* _sanitize_path_component
Sanitize(value) ==
    KeepSafe(Replace(Replace(Replace(value, <<"/">>, <<"_">>), <<"\\">>, <<"_">>),
                     <<".", ".">>, <<"_", "_">>))

\* the standard placeholders; now.strftime() gives digits and dashes
StandardNames ==
    <<"date", "time", "timestamp", "year", "month", "day", "hour", "minute", "second">>
Strftime(name) == <<"00">>

Item(key, value) == [key |-> key, value |-> value]

\* placeholders.items(): the standard placeholders, then the metadata with
\* sanitized values
Placeholders(metadata) ==
    [i \in 1..Len(StandardNames) |-> Item(StandardNames[i], Strftime(StandardNames[i]))]
    \o [i \in 1..Len(metadata) |-> Item(metadata[i].key, Sanitize(metadata[i].value))]

\* for placeholder, value in placeholders.items(): result = result.replace(...)
RECURSIVE Substitute(_, _)
Substitute(result, items) ==
    IF items = <<>> THEN result
    ELSE Substitute(Replace(result, <<"{", Head(items).key, "}">>, Head(items).value),
                    Tail(items))

\* re.findall(r"\{([^}]+)\}", result) is not empty
HasPlaceholder(t) ==
    \E i, j \in 1..Len(t) :
        /\ i + 2 <= j
        /\ t[i] = "{" /\ t[j] = "}"
        /\ \A k \in (i + 1)..(j - 1) : t[k] # "}"

\* _apply_filename_pattern: the filename, or the error
Filename(pattern, metadata) == Substitute(pattern, Placeholders(metadata))

\* the remaining placeholders are not looked for (for comparison)
UnsubstitutedIgnored(pattern, metadata) == FALSE

\* if remaining_placeholders: raise OutputError
Unsubstituted(pattern, metadata) == HasPlaceholder(Filename(pattern, metadata))

\* filename patterns explored: "t", "{provider}", ".{provider}",
\* "{date}_{region}", "s/{provider}"
Patterns ==
    { <<"t">>,
      <<"{", "provider", "}">>,
      <<".", "{", "provider", "}">>,
      <<"{", "date", "}", "_", "{", "region", "}">>,
      <<"s", "/", "{", "provider", "}">> }

\* metadata: none, or a provider
Metadata(values) == {<<>>} \cup {<<Item("provider", v)>> : v \in values}

NamingStart ==
    /\ npattern \in Patterns
    /\ nmeta \in Metadata(Texts(ValueChars, MaxValueLen))
    /\ npc = "start"
    /\ nresult = [kind |-> "none", filename |-> <<>>]

IdleNaming ==
    /\ npattern = <<>>
    /\ nmeta = <<>>
    /\ npc = "idle"
    /\ nresult = [kind |-> "none", filename |-> <<>>]

ApplyFilenamePattern ==
    /\ npc = "start"
    /\ npc' = "done"
    /\ nresult' = IF Unsubstituted(npattern, nmeta)
                  THEN [kind |-> "raised", filename |-> Filename(npattern, nmeta)]
                  ELSE [kind |-> "returned", filename |-> Filename(npattern, nmeta)]
    /\ UNCHANGED <<notNaming, npattern, nmeta>>

NextNaming == ApplyFilenamePattern

\* ========================================================== WRITE_TO_LOCAL
\* A path is the sequence of its components, the root being <<>>; a
\* component is a text.
PathChars == {"a", ".", "/"}

\* config.path
OutputDir == << <<"out">> >>

\* the pieces of a text between its "/"
RECURSIVE Split(_)
Split(t) ==
    IF \A i \in 1..Len(t) : t[i] # "/" THEN <<t>>
    ELSE LET i == CHOOSE k \in 1..Len(t) :
                      t[k] = "/" /\ \A j \in 1..(k - 1) : t[j] # "/"
         IN <<SubSeq(t, 1, i - 1)>> \o Split(SubSeq(t, i + 1, Len(t)))

\* pathlib drops empty components and "."
Components(t) == SelectSeq(Split(t), LAMBDA c : c # <<>> /\ c # <<".">>)

\* output_dir / filename: an absolute filename replaces the directory
Join(dir, filename) ==
    IF filename # <<>> /\ filename[1] = "/"
    THEN Components(filename)
    ELSE dir \o Components(filename)

Parent(path) == SubSeq(path, 1, Len(path) - 1)
Name(path) == path[Len(path)]

\* path.with_suffix(path.suffix + ".tmp"): the name followed by ".tmp"
TempPath(path) == Append(Parent(path), Name(path) \o <<".tmp">>)

\* the file system follows ".." to the parent directory
RECURSIVE Resolve(_)
Resolve(path) ==
    IF path = <<>> THEN <<>>
    ELSE LET r == Resolve(Parent(path))
         IN IF Name(path) = <<".", ".">>
            THEN (IF r = <<>> THEN <<>> ELSE Parent(r))
            ELSE Append(r, Name(path))

Dir == [kind |-> "dir", enc |-> "none", content |-> <<>>]
File(enc, content) == [kind |-> "file", enc |-> enc, content |-> content]

\* a path exists when every step of it does
Exists(f, path) == \A k \in 0..Len(path) : Resolve(SubSeq(path, 1, k)) \in DOMAIN f
IsDir(f, path) == Exists(f, path) /\ f[Resolve(path)].kind = "dir"
IsFile(f, path) == Exists(f, path) /\ f[Resolve(path)].kind = "file"
Put(f, path, e) ==
    [q \in DOMAIN f \cup {Resolve(path)} |-> IF q = Resolve(path) THEN e ELSE f[q]]
Remove(f, path) == [q \in DOMAIN f \ {Resolve(path)} |-> f[q]]

\* if config.compression == "gzip" and not filename.endswith(".gz")
WithGz(filename, compression) ==
    IF compression = "gzip" /\ (filename = <<>> \/ filename[Len(filename)] # ".gz")
    THEN Append(filename, ".gz")
    ELSE filename

LocalFilename(cfg, metadata) ==
    WithGz(Filename(cfg.filename_pattern, metadata), cfg.compression)

\* output_path = output_dir / filename
OutputPath(cfg, metadata) == Join(OutputDir, LocalFilename(cfg, metadata))

\* prefix.rstrip("/")
RECURSIVE RStripSlash(_)
RStripSlash(t) ==
    IF t # <<>> /\ t[Len(t)] = "/" THEN RStripSlash(SubSeq(t, 1, Len(t) - 1)) ELSE t

\* key = f"{config.prefix.rstrip('/')}/{filename}" if config.prefix else filename
S3Key(cfg, metadata) ==
    IF cfg.prefix # <<>>
    THEN RStripSlash(cfg.prefix) \o <<"/">> \o LocalFilename(cfg, metadata)
    ELSE LocalFilename(cfg, metadata)

LocalConfig(type, create_dirs, overwrite, compression, pattern, prefix) ==
    [type |-> type, create_dirs |-> create_dirs, overwrite |-> overwrite,
     compression |-> compression, filename_pattern |-> pattern, prefix |-> prefix]

\* LocalOutputConfig, and S3OutputConfig (which has no create_dirs and no
\* overwrite flag: put_object creates and replaces)
LocalConfigs ==
    {LocalConfig("local", cd, ov, co, pat, <<>>) :
        cd \in BOOLEAN, ov \in BOOLEAN, co \in {"none", "gzip"}, pat \in Patterns}
    \cup {LocalConfig("s3", TRUE, TRUE, co, pat, pre) :
        co \in {"none", "gzip"}, pat \in Patterns, pre \in {<<>>, <<"pre", "/">>}}

\* data: empty, or written in two chunks
Payloads == {<<>>, <<"new1", "new2">>}

\* what a file written by somebody else holds
OldFile == File("none", <<"old">>)

\* the file system with path as a file, its missing parent directories
\* created; unchanged where path is taken by a directory
RECURSIVE WithDirs(_, _)
WithDirs(f, path) ==
    IF Exists(f, path) THEN f
    ELSE Put(WithDirs(f, Parent(path)), path, Dir)
WithOldFile(f, path) ==
    IF IsDir(f, path) THEN f
    ELSE Put(WithDirs(f, Parent(Resolve(path))), path, OldFile)

\* The file systems a call can start in: the output directory missing, or
\* present and empty, or holding a file at the target path, at the path of
\* the temp file, or at both.
FileSystems(cfg, metadata) ==
    LET bare == [q \in {<<>>} |-> Dir]
        empty == Put(bare, OutputDir, Dir)
    IN IF cfg.type = "s3" THEN {bare}
       ELSE IF Unsubstituted(cfg.filename_pattern, metadata) THEN {bare, empty}
       ELSE LET target == OutputPath(cfg, metadata)
                temp == TempPath(target)
            IN {bare, empty, WithOldFile(empty, target), WithOldFile(empty, temp),
                WithOldFile(WithOldFile(empty, target), temp)}

LocalStart ==
    /\ lcfg \in LocalConfigs
    /\ lmeta \in Metadata(Texts(PathChars, MaxValueLen))
    /\ ldata \in Payloads
    /\ fs \in FileSystems(lcfg, lmeta)
    /\ fs0 = fs
    /\ bucket = {}
    /\ lpc = "start"
    /\ output_path = <<>>
    /\ temp_path = <<>>
    /\ lresult = [kind |-> "none", error |-> None, path |-> <<>>]
    /\ lfault = "none"

IdleLocal ==
    /\ lcfg = LocalConfig("local", TRUE, FALSE, "none", <<>>, <<>>)
    /\ lmeta = <<>>
    /\ ldata = <<>>
    /\ fs = [q \in {<<>>} |-> Dir]
    /\ fs0 = fs
    /\ bucket = {}
    /\ lpc = "idle"
    /\ output_path = <<>>
    /\ temp_path = <<>>
    /\ lresult = [kind |-> "none", error |-> None, path |-> <<>>]
    /\ lfault = "none"

LocalRaised(e) == [kind |-> "raised", error |-> e, path |-> <<>>]
LocalFailing(e) == [kind |-> "failing", error |-> e, path |-> <<>>]

\* mkdir(parents=True, exist_ok=True) raises when a file is in the way
MkdirBlocked(f, path) ==
    \E k \in 1..Len(Resolve(path)) : IsFile(f, SubSeq(Resolve(path), 1, k))

HasSlash(t) == \E i \in 1..Len(t) : t[i] = "/"

\* an existing target is always replaced (for comparison)
OverwriteRefusedNever(exists, overwrite) == FALSE

\* if output_path.exists() and not config.overwrite
OverwriteRefused(exists, overwrite) == exists /\ ~overwrite

\* write_to_local up to the call of _write_atomic or _write_gzip: the output
\* directory, the filename, the intermediate directories and the overwrite
\* check. A failing mkdir is an OSError and ends in OutputError.
LocalPrepare ==
    /\ lpc = "start"
    /\ lcfg.type = "local"
    /\ \E fault1, fault2 \in BOOLEAN :
         LET mk1fail == lcfg.create_dirs /\ (fault1 \/ MkdirBlocked(fs, OutputDir))
             fs1 == IF lcfg.create_dirs /\ ~mk1fail THEN WithDirs(fs, OutputDir) ELSE fs
             missing == ~lcfg.create_dirs /\ ~Exists(fs, OutputDir)
             unsub == Unsubstituted(lcfg.filename_pattern, lmeta)
             path == OutputPath(lcfg, lmeta)
             nested == lcfg.create_dirs /\ HasSlash(LocalFilename(lcfg, lmeta))
             mk2fail == nested /\ (fault2 \/ MkdirBlocked(fs1, Parent(path)))
             fs2 == IF nested /\ ~mk2fail THEN WithDirs(fs1, Parent(path)) ELSE fs1
         IN IF mk1fail \/ missing
            THEN /\ lpc' = "raised"
                 /\ lresult' = LocalRaised("OutputError")
                 /\ lfault' = IF mk1fail THEN "mkdir" ELSE lfault
                 /\ UNCHANGED <<fs, output_path, temp_path>>
            ELSE IF unsub \/ mk2fail
            THEN /\ lpc' = "raised"
                 /\ lresult' = LocalRaised("OutputError")
                 /\ lfault' = IF unsub THEN lfault ELSE "mkdir"
                 /\ fs' = fs1
                 /\ UNCHANGED <<output_path, temp_path>>
            ELSE IF OverwriteRefused(Exists(fs2, path), lcfg.overwrite)
            THEN /\ lpc' = "raised"
                 /\ lresult' = LocalRaised("OutputError")
                 /\ fs' = fs2
                 /\ UNCHANGED <<output_path, temp_path, lfault>>
            ELSE /\ lpc' = "open"
                 /\ output_path' = path
                 /\ temp_path' = TempPath(path)
                 /\ fs' = fs2
                 /\ UNCHANGED <<lresult, lfault>>
    /\ UNCHANGED <<notLocal, lcfg, lmeta, ldata, bucket, fs0>>

\* a file can be opened for writing in an existing directory, where no
\* directory has its name
CanOpen(f, path) == IsDir(f, Parent(path)) /\ ~IsDir(f, path)

\* temp_path.write_text / gzip.open, first half: the temp file is created,
\* or emptied if it exists
OpenTemp ==
    /\ lpc = "open"
    /\ \E fault \in BOOLEAN :
         IF fault \/ ~CanOpen(fs, temp_path)
         THEN /\ lpc' = "cleanup"
              /\ lresult' = LocalFailing("OSError")
              /\ lfault' = "open"
              /\ UNCHANGED fs
         ELSE /\ lpc' = "write"
              /\ fs' = Put(fs, temp_path, File(lcfg.compression, <<>>))
              /\ UNCHANGED <<lresult, lfault>>
    /\ UNCHANGED <<notLocal, lcfg, lmeta, ldata, bucket, output_path, temp_path, fs0>>

\* second half: the data is written; an I/O failure leaves any prefix of
\* it in the temp file, an encoding failure leaves nothing
WriteTemp ==
    /\ lpc = "write"
    /\ \E k \in 0..Len(ldata), e \in {"none", "OSError", "UnicodeEncodeError"} :
         /\ e = "none" => k = Len(ldata)
         /\ e = "UnicodeEncodeError" => k = 0
         /\ fs' = Put(fs, temp_path, File(lcfg.compression, SubSeq(ldata, 1, k)))
         /\ IF e = "none"
            THEN /\ lpc' = "rename"
                 /\ UNCHANGED <<lresult, lfault>>
            ELSE /\ lpc' = "cleanup"
                 /\ lresult' = LocalFailing(e)
                 /\ lfault' = "write"
    /\ UNCHANGED <<notLocal, lcfg, lmeta, ldata, bucket, output_path, temp_path, fs0>>

\* temp_path.replace(path): atomic; it fails onto a directory
RenameTemp ==
    /\ lpc = "rename"
    /\ \E fault \in BOOLEAN :
         IF fault \/ IsDir(fs, output_path)
         THEN /\ lpc' = "cleanup"
              /\ lresult' = LocalFailing("OSError")
              /\ lfault' = "rename"
              /\ UNCHANGED fs
         ELSE /\ lpc' = "returned"
              /\ fs' = Remove(Put(fs, output_path, fs[Resolve(temp_path)]), temp_path)
              /\ lresult' = [kind |-> "returned", error |-> None, path |-> output_path]
              /\ UNCHANGED lfault
    /\ UNCHANGED <<notLocal, lcfg, lmeta, ldata, bucket, output_path, temp_path, fs0>>

\* the temp file is left where it is (for comparison)
CleanupTempKeeping ==
    /\ lpc = "cleanup"
    /\ lpc' = "raised"
    /\ lresult' = LocalRaised(IF lresult.error = "OSError" THEN "OutputError"
                              ELSE lresult.error)
    /\ UNCHANGED <<notLocal, lcfg, lmeta, ldata, fs, bucket, output_path, temp_path,
                   fs0, lfault>>

\* except Exception: the temp file is unlinked if it exists and the
\* exception is raised again; write_to_local turns an OSError into
\* OutputError. Unlinking an existing file is taken to succeed.
CleanupTemp ==
    /\ lpc = "cleanup"
    /\ fs' = IF IsFile(fs, temp_path) THEN Remove(fs, temp_path) ELSE fs
    /\ lpc' = "raised"
    /\ lresult' = LocalRaised(IF lresult.error = "OSError" THEN "OutputError"
                              ELSE lresult.error)
    /\ UNCHANGED <<notLocal, lcfg, lmeta, ldata, bucket, output_path, temp_path,
                   fs0, lfault>>

\* write_to_s3: the filename, the key and one put_object, which may fail
WriteToS3 ==
    /\ lpc = "start"
    /\ lcfg.type = "s3"
    /\ \E fault \in BOOLEAN :
         IF Unsubstituted(lcfg.filename_pattern, lmeta) \/ fault
         THEN /\ lpc' = "raised"
              /\ lresult' = LocalRaised("OutputError")
              /\ lfault' = IF Unsubstituted(lcfg.filename_pattern, lmeta)
                            THEN lfault ELSE "put_object"
              /\ UNCHANGED bucket
         ELSE /\ lpc' = "returned"
              /\ bucket' = bucket \cup {S3Key(lcfg, lmeta)}
              /\ lresult' = [kind |-> "returned", error |-> None,
                             path |-> S3Key(lcfg, lmeta)]
              /\ UNCHANGED lfault
    /\ UNCHANGED <<notLocal, lcfg, lmeta, ldata, fs, output_path, temp_path, fs0>>

NextLocal ==
    \/ LocalPrepare
    \/ OpenTemp
    \/ WriteTemp
    \/ RenameTemp
    \/ CleanupTemp
    \/ WriteToS3

\* ======================================================== FILTER_INSTANCES
MaxRecords == 2

\* A field value or an operand: None, a number, a string (a sequence of
\* characters) or a list (it stands for the operand [1]).
FNull == [t |-> "null", n |-> 0, s |-> <<>>]
FNum(n) == [t |-> "num", n |-> n, s |-> <<>>]
FStr(s) == [t |-> "str", n |-> 0, s |-> s]
FList == [t |-> "list", n |-> 0, s |-> <<>>]

\* GPUInstance, by the fields the filters look at
GPUInstance(provider, price, mem) ==
    [provider |-> FStr(provider), price |-> FNum(price), accelerator_mem_gib |-> mem]

GPUInstances ==
    { GPUInstance(<<"a">>, 1, FNull),
      GPUInstance(<<"a", "b">>, 3, FNum(2)),
      GPUInstance(<<"a">>, 2, FNull) }

\* field names a clause can carry; "nofield" is no attribute of GPUInstance
FieldNames == {"provider", "price", "accelerator_mem_gib", "nofield"}

\* FilterConfig.values: None or a list
NoValues == [none |-> TRUE, items |-> <<>>]
Values(items) == [none |-> FALSE, items |-> items]

FilterConfig(field, operator, value, values, min, max) ==
    [field |-> field, operator |-> operator, value |-> value, values |-> values,
     min |-> min, max |-> max]

ValueOperators ==
    {"eq", "ne", "lt", "lte", "gt", "gte", "regex", "contains", "starts_with"}

\* FilterConfig.validate_operator_fields: the construction is rejected
ValidFilterConfig(fc) ==
    /\ fc.operator \in ValueOperators => fc.value # FNull
    /\ fc.operator \in {"in", "not_in"} => ~fc.values.none
    /\ fc.operator = "between" => fc.min # FNull /\ fc.max # FNull

CandidateFilterConfigs ==
    {FilterConfig(f, op, v, NoValues, FNull, FNull) :
        f \in FieldNames, op \in ValueOperators,
        v \in {FNull, FNum(2), FStr(<<"a">>), FList}}
    \cup {FilterConfig(f, op, FNull, vs, FNull, FNull) :
        f \in FieldNames, op \in {"in", "not_in"},
        vs \in {NoValues, Values(<<>>), Values(<<FNum(1), FStr(<<"a">>)>>)}}
    \cup {FilterConfig(f, "between", FNull, NoValues, mm[1], mm[2]) :
        f \in FieldNames,
        mm \in {<<FNull, FNull>>, <<FNum(1), FNull>>, <<FNum(1), FNum(2)>>,
                <<FNum(3), FNum(1)>>}}
    \cup {FilterConfig(f, op, FNull, NoValues, FNull, FNull) :
        f \in FieldNames, op \in {"is_null", "is_not_null"}}

FilterConfigs == {fc \in CandidateFilterConfigs : ValidFilterConfig(fc)}

\* second clauses of the two-clause lists: one that passes every instance,
\* one that passes some, one that raises
SecondFilterConfigs ==
    { FilterConfig("price", "gte", FNum(1), NoValues, FNull, FNull),
      FilterConfig("price", "lt", FNum(2), NoValues, FNull, FNull),
      FilterConfig("provider", "lt", FNum(2), NoValues, FNull, FNull) }

FilterLists ==
    {<<>>} \cup {<<fc>> : fc \in FilterConfigs}
        \cup {<<fc, sc>> : fc \in FilterConfigs, sc \in SecondFilterConfigs}

InstanceLists == UNION {[1..k -> GPUInstances] : k \in 0..MaxRecords}

\* order of the characters
CharRank(c) == CASE c = "1" -> 1 [] c = "2" -> 2 [] c = "[" -> 3 [] c = "]" -> 4
                 [] c = "a" -> 5 [] OTHER -> 6

\* s < t, s == t or s > t for strings
RECURSIVE StrCmp(_, _)
StrCmp(s, t) ==
    IF s = <<>> /\ t = <<>> THEN "eq"
    ELSE IF s = <<>> THEN "lt"
    ELSE IF t = <<>> THEN "gt"
    ELSE IF CharRank(Head(s)) < CharRank(Head(t)) THEN "lt"
    ELSE IF CharRank(Head(s)) > CharRank(Head(t)) THEN "gt"
    ELSE StrCmp(Tail(s), Tail(t))

\* the ordering comparison of two values: numbers with numbers, strings
\* with strings, anything else raises TypeError
Cmp(a, b) ==
    CASE a.t = "num" /\ b.t = "num" ->
            IF a.n < b.n THEN "lt" ELSE IF a.n = b.n THEN "eq" ELSE "gt"
      [] a.t = "str" /\ b.t = "str" -> StrCmp(a.s, b.s)
      [] OTHER -> "TypeError"

\* str(value)
StrOf(v) ==
    CASE v.t = "str" -> v.s
      [] v.t = "num" -> IF v.n = 1 THEN <<"1">> ELSE <<"2">>
      [] v.t = "list" -> <<"[", "1", "]">>
      [] OTHER -> <<"None">>

\* sub in s
Contains(s, sub) ==
    \E i \in 1..(Len(s) + 1) :
        i + Len(sub) - 1 <= Len(s) /\ SubSeq(s, i, i + Len(sub) - 1) = sub

\* s.startswith(prefix)
StartsWith(s, prefix) == Len(prefix) <= Len(s) /\ SubSeq(s, 1, Len(prefix)) = prefix

\* re.compile(pattern).search(s) is not None: the patterns are literal
\* texts, except "[1]", the class of the character "1"
RegexSearch(pattern, s) ==
    IF pattern = <<"[", "1", "]">>
    THEN \E i \in 1..Len(s) : s[i] = "1"
    ELSE Contains(s, pattern)

Bool(b) == IF b THEN "True" ELSE "False"

\* the ordering operators compare a null field as well (for comparison)
OrderedIgnoringNull(field_value, value, accepted) ==
    IF Cmp(field_value, value) = "TypeError" THEN "FilterError"
    ELSE Bool(Cmp(field_value, value) \in accepted)

\* lt, lte, gt, gte after the check of the operand: a null field is False,
\* a TypeError of the comparison becomes FilterError
Ordered(field_value, value, accepted) ==
    IF field_value = FNull THEN "False"
    ELSE IF Cmp(field_value, value) = "TypeError" THEN "FilterError"
    ELSE Bool(Cmp(field_value, value) \in accepted)

\* string operators after the check of the operand
OnString(field_value, holds) ==
    IF field_value = FNull THEN "False"
    ELSE IF field_value.t # "str" THEN "FilterError"
    ELSE Bool(holds)

\* apply_filter: "True", "False", or the error raised
ApplyFilter(instance, fc) ==
    IF fc.field \notin DOMAIN instance THEN "FilterError"
    ELSE LET field_value == instance[fc.field]
             operator == fc.operator
         IN CASE operator \in ValueOperators /\ fc.value = FNull -> "FilterError"
              [] operator \in {"in", "not_in"} /\ fc.values.none -> "FilterError"
              [] operator = "between" /\ (fc.min = FNull \/ fc.max = FNull) ->
                    "FilterError"
              [] operator = "eq" -> Bool(field_value = fc.value)
              [] operator = "ne" -> Bool(field_value # fc.value)
              [] operator = "lt" -> Ordered(field_value, fc.value, {"lt"})
              [] operator = "lte" -> Ordered(field_value, fc.value, {"lt", "eq"})
              [] operator = "gt" -> Ordered(field_value, fc.value, {"gt"})
              [] operator = "gte" -> Ordered(field_value, fc.value, {"gt", "eq"})
              [] operator = "between" ->
                    IF field_value = FNull THEN "False"
                    ELSE IF Cmp(fc.min, field_value) = "TypeError" THEN "FilterError"
                    ELSE Bool(/\ Cmp(fc.min, field_value) \in {"lt", "eq"}
                              /\ Cmp(field_value, fc.max) \in {"lt", "eq"})
              [] operator = "in" ->
                    Bool(\E i \in 1..Len(fc.values.items) :
                            fc.values.items[i] = field_value)
              [] operator = "not_in" ->
                    Bool(\A i \in 1..Len(fc.values.items) :
                            fc.values.items[i] # field_value)
              [] operator = "regex" ->
                    OnString(field_value, RegexSearch(StrOf(fc.value), field_value.s))
              [] operator = "contains" ->
                    OnString(field_value, Contains(field_value.s, StrOf(fc.value)))
              [] operator = "starts_with" ->
                    OnString(field_value, StartsWith(field_value.s, StrOf(fc.value)))
              [] operator = "is_null" -> Bool(field_value = FNull)
              [] operator = "is_not_null" -> Bool(field_value # FNull)
              [] OTHER -> "FilterError"

\* apply_filters: all() over the clauses in order, stopping at the first
\* clause that is False or raises
RECURSIVE ApplyFilters(_, _)
ApplyFilters(instance, fcs) ==
    IF fcs = <<>> THEN "True"
    ELSE LET r == ApplyFilter(instance, Head(fcs))
         IN IF r = "True" THEN ApplyFilters(instance, Tail(fcs)) ELSE r

FilterResult(kind, value) == [kind |-> kind, value |-> value]

FilterStart ==
    /\ finstances \in InstanceLists
    /\ filters \in FilterLists
    /\ fpc = "start"
    /\ fidx = 1
    /\ ffiltered = <<>>
    /\ fresult = FilterResult("none", <<>>)

IdleFilter ==
    /\ finstances = <<>>
    /\ filters = <<>>
    /\ fpc = "idle"
    /\ fidx = 1
    /\ ffiltered = <<>>
    /\ fresult = FilterResult("none", <<>>)

\* if not filters: return instances
ReturnUnfiltered ==
    /\ fpc = "start"
    /\ filters = <<>>
    /\ fresult' = FilterResult("returned", finstances)
    /\ fpc' = "returned"
    /\ UNCHANGED <<notFilter, finstances, filters, fidx, ffiltered>>

\* filtered = []
EnterFilterLoop ==
    /\ fpc = "start"
    /\ filters # <<>>
    /\ ffiltered' = <<>>
    /\ fidx' = 1
    /\ fpc' = "loop"
    /\ UNCHANGED <<notFilter, finstances, filters, fresult>>

\* the instance is put in front of filtered (for comparison)
FilterStepPrepending ==
    /\ fpc = "loop"
    /\ fidx <= Len(finstances)
    /\ LET r == ApplyFilters(finstances[fidx], filters)
       IN IF r \notin {"True", "False"}
          THEN /\ fpc' = "raised"
               /\ fresult' = FilterResult(r, <<>>)
               /\ UNCHANGED <<fidx, ffiltered>>
          ELSE /\ ffiltered' = IF r = "True"
                               THEN <<finstances[fidx]>> \o ffiltered
                               ELSE ffiltered
               /\ fidx' = fidx + 1
               /\ UNCHANGED <<fpc, fresult>>
    /\ UNCHANGED <<notFilter, finstances, filters>>

\* one iteration: the instance is appended when apply_filters is true; an
\* error of a clause leaves filter_instances
FilterStep ==
    /\ fpc = "loop"
    /\ fidx <= Len(finstances)
    /\ LET r == ApplyFilters(finstances[fidx], filters)
       IN IF r \notin {"True", "False"}
          THEN /\ fpc' = "raised"
               /\ fresult' = FilterResult(r, <<>>)
               /\ UNCHANGED <<fidx, ffiltered>>
          ELSE /\ ffiltered' = IF r = "True"
                               THEN Append(ffiltered, finstances[fidx])
                               ELSE ffiltered
               /\ fidx' = fidx + 1
               /\ UNCHANGED <<fpc, fresult>>
    /\ UNCHANGED <<notFilter, finstances, filters>>

\* return filtered
ReturnFiltered ==
    /\ fpc = "loop"
    /\ fidx > Len(finstances)
    /\ fresult' = FilterResult("returned", ffiltered)
    /\ fpc' = "returned"
    /\ UNCHANGED <<notFilter, finstances, filters, fidx, ffiltered>>

NextFilter ==
    \/ ReturnUnfiltered
    \/ EnterFilterLoop
    \/ FilterStep
    \/ ReturnFiltered

\* ==================================================== TRANSFORM_TO_METRICS
MetricTypes == {"count", "avg", "min", "max", "sum", "unique"}

MetricConfig(type, field, group_by) == [type |-> type, field |-> field, group_by |-> group_by]

\* MetricConfig.validate_field_required
ValidMetricConfig(mc) == mc.type # "count" => mc.field # None

\* field and group_by are None, the empty string or a name
MetricConfigs ==
    {mc \in {MetricConfig(t, f, g) :
                t \in MetricTypes, f \in FieldNames \cup {None, ""},
                g \in {None, "provider", "accelerator_mem_gib", "nofield"}} :
        ValidMetricConfig(mc)}

\* a metric value: None, a number n/d, a string, or the count of the list
MValue(t, n, d, s) == [t |-> t, n |-> n, d |-> d, s |-> s]
MNull == MValue("null", 0, 1, <<>>)
MNum(n) == MValue("num", n, 1, <<>>)
MError(e) == MValue(e, 0, 1, <<>>)

\* the non-null values of the field, of the instances that have it
FieldValues(insts, field) ==
    LET having == SelectSeq(insts, LAMBDA i : field \in DOMAIN i /\ i[field] # FNull)
    IN [k \in 1..Len(having) |-> having[k][field]]

RECURSIVE SumOf(_)
SumOf(values) == IF values = <<>> THEN 0 ELSE Head(values).n + SumOf(Tail(values))

\* min(values) / max(values): the first value no other value is below / above
Least(values) ==
    values[CHOOSE i \in 1..Len(values) :
        /\ \A j \in 1..Len(values) : Cmp(values[j], values[i]) # "lt"
        /\ \A j \in 1..(i - 1) : Cmp(values[i], values[j]) # "eq"]
Greatest(values) ==
    values[CHOOSE i \in 1..Len(values) :
        /\ \A j \in 1..Len(values) : Cmp(values[j], values[i]) # "gt"
        /\ \A j \in 1..(i - 1) : Cmp(values[i], values[j]) # "eq"]

AsMValue(v) == MValue(v.t, v.n, 1, v.s)

\* an empty list of values is len(set(values)) for unique (for comparison)
WhenNoValuesUniqueZero(type) == IF type = "unique" THEN MNum(0) ELSE MNull

\* if not values: return None
WhenNoValues(type) == MNull

\* _compute_metric
ComputeMetric(insts, mc) ==
    IF mc.type = "count" THEN MNum(Len(insts))
    ELSE IF mc.field \in {None, ""} THEN MError("TransformerError")
    ELSE LET values == FieldValues(insts, mc.field)
         IN IF values = <<>> THEN WhenNoValues(mc.type)
            ELSE CASE mc.type = "avg" ->
                        IF values[1].t # "num" THEN MError("TypeError")
                        ELSE MValue("num", SumOf(values), Len(values), <<>>)
                   [] mc.type = "sum" ->
                        IF values[1].t # "num" THEN MError("TypeError")
                        ELSE MNum(SumOf(values))
                   [] mc.type = "min" -> AsMValue(Least(values))
                   [] mc.type = "max" -> AsMValue(Greatest(values))
                   [] mc.type = "unique" ->
                        MNum(Cardinality({values[i] : i \in 1..Len(values)}))
                   [] OTHER -> MError("TransformerError")

\* group_key = str(group_value) if group_value is not None else "null"
GroupKey(v) == IF v = FNull THEN <<"null">> ELSE StrOf(v)

\* _compute_grouped_metric: the groups and the metric of each, or the error
ComputeGroupedMetric(insts, mc) ==
    IF insts # <<>> /\ mc.group_by \notin DOMAIN insts[1]
    THEN [kind |-> "raised", error |-> "TransformerError", groups |-> <<>>]
    ELSE LET keys == {GroupKey(insts[i][mc.group_by]) : i \in 1..Len(insts)}
             of(k) == SelectSeq(insts, LAMBDA i : GroupKey(i[mc.group_by]) = k)
             failing == {k \in keys : ComputeMetric(of(k), mc).t
                                          \in {"TransformerError", "TypeError"}}
         IN IF failing # {}
            THEN [kind |-> "raised", error |-> "TransformerError", groups |-> <<>>]
            ELSE [kind |-> "groups", error |-> None,
                  groups |-> [k \in keys |-> ComputeMetric(of(k), mc)]]

MetricsStart ==
    /\ minstances \in InstanceLists
    /\ mcfg \in MetricConfigs
    /\ mpc = "start"
    /\ mresult = [kind |-> "none"]

IdleMetrics ==
    /\ minstances = <<>>
    /\ mcfg = MetricConfig("count", None, None)
    /\ mpc = "idle"
    /\ mresult = [kind |-> "none"]

\* metrics_data[name] = _compute_metric(instances, metric_config); an error
\* leaves transform_to_metrics as TransformerError
ComputeSingle ==
    /\ mpc = "start"
    /\ mcfg.group_by \in {None, ""}
    /\ LET v == ComputeMetric(minstances, mcfg)
       IN IF v.t \in {"TransformerError", "TypeError"}
          THEN /\ mpc' = "raised"
               /\ mresult' = [kind |-> "raised", error |-> "TransformerError"]
          ELSE /\ mpc' = "returned"
               /\ mresult' = [kind |-> "value", value |-> v]
    /\ UNCHANGED <<notMetrics, minstances, mcfg>>

\* metrics_data[name] = _compute_grouped_metric(instances, metric_config)
ComputeGrouped ==
    /\ mpc = "start"
    /\ mcfg.group_by \notin {None, ""}
    /\ LET g == ComputeGroupedMetric(minstances, mcfg)
       IN /\ mresult' = g
          /\ mpc' = IF g.kind = "raised" THEN "raised" ELSE "returned"
    /\ UNCHANGED <<notMetrics, minstances, mcfg>>

NextMetrics ==
    \/ ComputeSingle
    \/ ComputeGrouped

\* ======================================================= TRANSFORM_TO_JSON
\* the value of raw_data: a dictionary
FDict == [t |-> "dict", n |-> 0, s |-> <<>>]

\* GPUInstance, by three of its fields
JsonInstance(provider, spot_price, raw_data) ==
    [provider |-> FStr(provider), spot_price |-> spot_price, raw_data |-> raw_data]

JsonInstances ==
    { JsonInstance(<<"a">>, FNull, FDict),
      JsonInstance(<<"a">>, FNum(2), FNull),
      JsonInstance(<<"b">>, FNum(2), FDict) }

JsonInstanceLists == UNION {[1..k -> JsonInstances] : k \in 0..MaxRecords}

\* one item of config.fields: source_field -> output_name
Rename(source_field, output_name) == [source |-> source_field, alias |-> output_name]

\* config.fields as the list of its items; NoFields is None
NoFields == [none |-> TRUE, items |-> <<>>]
Fields(items) == [none |-> FALSE, items |-> items]

FieldMaps ==
    { NoFields,
      Fields(<<>>),
      Fields(<<Rename("provider", "p")>>),
      Fields(<<Rename("provider", "p"), Rename("raw_data", "raw")>>),
      Fields(<<Rename("raw_data", "raw_data")>>),
      Fields(<<Rename("provider", "raw_data")>>),
      Fields(<<Rename("provider", "p"), Rename("spot_price", "p")>>),
      Fields(<<Rename("nofield", "x")>>) }

JsonConfig(fields, include_raw_data, pretty_print, null_handling) ==
    [fields |-> fields, include_raw_data |-> include_raw_data,
     pretty_print |-> pretty_print, null_handling |-> null_handling]

JsonConfigs ==
    {JsonConfig(f, r, p, n) :
        f \in FieldMaps, r \in BOOLEAN, p \in BOOLEAN, n \in {"omit", "null", "empty"}}

\* instance.model_dump(mode="json", exclude_none=...): a dictionary is a
\* function from its keys
ModelDump(instance, exclude_none) ==
    LET keys == {k \in DOMAIN instance : ~(exclude_none /\ instance[k] = FNull)}
    IN [k \in keys |-> instance[k]]

\* {output_name: item[source_field] for source_field, output_name in
\*  config.fields.items() if source_field in item}: of two items with the
\* same output_name the later one stays
SelectFields(item, items) ==
    LET used == {i \in 1..Len(items) : items[i].source \in DOMAIN item}
        last(k) == CHOOSE i \in used :
                       /\ items[i].alias = k
                       /\ \A j \in used : items[j].alias = k => j <= i
    IN [k \in {items[i].alias : i \in used} |-> item[items[last(k)].source]]

\* {k: v for k, v in item.items() if k != "raw_data"}
DropRaw(item) == [k \in DOMAIN item \ {"raw_data"} |-> item[k]]

\* {k: ("" if v is None else v) for k, v in item.items()}
EmptyForNull(item) == [k \in DOMAIN item |-> IF item[k] = FNull THEN FStr(<<>>) ELSE item[k]]

JsonStart ==
    /\ jinstances \in JsonInstanceLists
    /\ jcfg \in JsonConfigs
    /\ jpc = "start"
    /\ jdata = <<>>
    /\ jresult = [kind |-> "none"]

IdleJson ==
    /\ jinstances = <<>>
    /\ jcfg = JsonConfig(NoFields, FALSE, FALSE, "null")
    /\ jpc = "idle"
    /\ jdata = <<>>
    /\ jresult = [kind |-> "none"]

\* data = [instance.model_dump(...) for instance in instances]
DumpInstances ==
    /\ jpc = "start"
    /\ jdata' = [i \in 1..Len(jinstances) |->
                    ModelDump(jinstances[i], jcfg.null_handling = "omit")]
    /\ jpc' = "select"
    /\ UNCHANGED <<notJson, jinstances, jcfg, jresult>>

\* if config.fields: field selection and mapping (None and {} are falsy)
SelectAndRename ==
    /\ jpc = "select"
    /\ jdata' = IF jcfg.fields.none \/ jcfg.fields.items = <<>>
                THEN jdata
                ELSE [i \in 1..Len(jdata) |-> SelectFields(jdata[i], jcfg.fields.items)]
    /\ jpc' = "raw"
    /\ UNCHANGED <<notJson, jinstances, jcfg, jresult>>

\* if not config.include_raw_data: the key "raw_data" is removed
HandleRawData ==
    /\ jpc = "raw"
    /\ jdata' = IF ~jcfg.include_raw_data
                THEN [i \in 1..Len(jdata) |-> DropRaw(jdata[i])]
                ELSE jdata
    /\ jpc' = "nulls"
    /\ UNCHANGED <<notJson, jinstances, jcfg, jresult>>

\* if config.null_handling == "empty"
HandleNulls ==
    /\ jpc = "nulls"
    /\ jdata' = IF jcfg.null_handling = "empty"
                THEN [i \in 1..Len(jdata) |-> EmptyForNull(jdata[i])]
                ELSE jdata
    /\ jpc' = "dumps"
    /\ UNCHANGED <<notJson, jinstances, jcfg, jresult>>

\* return json.dumps(data, indent=..., ensure_ascii=...)
Serialize ==
    /\ jpc = "dumps"
    /\ jresult' = [kind |-> "json", value |-> jdata,
                   indent |-> IF jcfg.pretty_print THEN 2 ELSE 0,
                   ensure_ascii |-> ~jcfg.pretty_print]
    /\ jpc' = "returned"
    /\ UNCHANGED <<notJson, jinstances, jcfg, jdata>>

NextJson ==
    \/ DumpInstances
    \/ SelectAndRename
    \/ HandleRawData
    \/ HandleNulls
    \/ Serialize

\* ============================================= RUNPODCOLLECTOR.FETCH_INSTANCES
MaxGpuTypes == 4
MAX_CONCURRENT_REQUESTS == 3

\* the API has gpu_types GPU types and datacenters datacenters
CollectorConfigs ==
    [gpu_types : 0..MaxGpuTypes, datacenters : {0, 2}, max_retries : {0, 1}]

\* what a pricing query can end in: data of the GPU type, an empty gpuTypes
\* list, an exception (HTTP error, GraphQL errors, timeout), or data whose
\* memoryInGb is null, on which _parse_gpu_data raises TypeError
PricingOutcomes == {"data", "empty", "error", "malformed"}

\* _fetch_gpu_pricing: the GPU data, or None after a warning or a logged
\* exception
PricingResult(o) == IF o \in {"data", "malformed"} THEN o ELSE None

\* _parse_gpu_data: one instance per datacenter
ParseGpuData(t, datacenters) == [d \in 1..datacenters |-> [instance_type |-> t, region |-> d]]

\* the loop over gpu_pricing_results, in the order of the tasks
RECURSIVE ParseAll(_, _, _)
ParseAll(rs, t, datacenters) ==
    IF t > Len(rs) THEN <<>>
    ELSE (IF rs[t] = "data" THEN ParseGpuData(t, datacenters) ELSE <<>>)
             \o ParseAll(rs, t + 1, datacenters)

InFlight == {t \in DOMAIN tstate : tstate[t] = "inflight"}

\* the task has returned: with the answer of its query (done) or after the
\* exception of its query was logged (failed)
Finished(t) == tstate[t] \in {"done", "failed"}

\* the semaphore is never looked at (for comparison)
LockedNever(value, queue) == FALSE

\* Semaphore.locked(): no permit left, or somebody is waiting already
Locked(value, queue) == value = 0 \/ queue # <<>>

RunPodStart ==
    /\ ccfg \in CollectorConfigs
    /\ cpc = "start"
    /\ calls = 0
    /\ tstate = <<>>
    /\ semaphore = MAX_CONCURRENT_REQUESTS
    /\ waiters = <<>>
    /\ gpu_pricing_results = <<>>
    /\ reordered = FALSE
    /\ cresult = [kind |-> "none", instances |-> <<>>]

IdleRunPod ==
    /\ ccfg = [gpu_types |-> 0, datacenters |-> 0, max_retries |-> 0]
    /\ cpc = "idle"
    /\ calls = 0
    /\ tstate = <<>>
    /\ semaphore = MAX_CONCURRENT_REQUESTS
    /\ waiters = <<>>
    /\ gpu_pricing_results = <<>>
    /\ reordered = FALSE
    /\ cresult = [kind |-> "none", instances |-> <<>>]

\* fetch_instances raised: with_retry calls it again unless this was the
\* last attempt
FetchRaised ==
    IF IsLastAttempt(calls - 1, ccfg.max_retries)
    THEN /\ cpc' = "raised"
         /\ cresult' = [kind |-> "raised", instances |-> <<>>]
    ELSE /\ cpc' = "start"
         /\ UNCHANGED cresult

FetchReturned(insts) ==
    /\ cpc' = "returned"
    /\ cresult' = [kind |-> "returned", instances |-> insts]

\* with_retry calls fetch_instances; step 1, _get_all_gpu_types: one request
\* under the semaphore, alone
GetAllGpuTypes ==
    /\ cpc = "start"
    /\ calls' = calls + 1
    /\ \E ok \in BOOLEAN :
         IF ~ok THEN /\ cpc' = IF IsLastAttempt(calls, ccfg.max_retries)
                               THEN "raised" ELSE "start"
                     /\ cresult' = IF IsLastAttempt(calls, ccfg.max_retries)
                                   THEN [kind |-> "raised", instances |-> <<>>]
                                   ELSE cresult
         ELSE IF ccfg.gpu_types = 0 THEN FetchReturned(<<>>)
         ELSE /\ cpc' = "datacenters"
              /\ UNCHANGED cresult
    /\ UNCHANGED <<notRunPod, ccfg, tstate, semaphore, waiters, gpu_pricing_results,
                   reordered>>

\* step 2, _get_all_datacenters, and the creation of one task per GPU type
\* for asyncio.gather
GetAllDatacenters ==
    /\ cpc = "datacenters"
    /\ \E ok \in BOOLEAN :
         IF ~ok THEN FetchRaised /\ UNCHANGED <<tstate, gpu_pricing_results>>
         ELSE IF ccfg.datacenters = 0
         THEN FetchReturned(<<>>) /\ UNCHANGED <<tstate, gpu_pricing_results>>
         ELSE /\ cpc' = "gather"
              /\ tstate' = [t \in 1..ccfg.gpu_types |-> "created"]
              /\ gpu_pricing_results' = [t \in 1..ccfg.gpu_types |-> "pending"]
              /\ UNCHANGED cresult
    /\ UNCHANGED <<notRunPod, ccfg, calls, semaphore, waiters, reordered>>

\* a task reaches `async with self._semaphore`: it takes a permit and sends
\* its request, or queues up
TaskAcquire(t) ==
    /\ cpc = "gather"
    /\ tstate[t] = "created"
    /\ IF Locked(semaphore, waiters)
       THEN /\ tstate' = [tstate EXCEPT ![t] = "waiting"]
            /\ waiters' = Append(waiters, t)
            /\ UNCHANGED semaphore
       ELSE /\ tstate' = [tstate EXCEPT ![t] = "inflight"]
            /\ semaphore' = semaphore - 1
            /\ UNCHANGED waiters
    /\ UNCHANGED <<notRunPod, ccfg, cpc, calls, gpu_pricing_results, reordered, cresult>>

\* the first waiter is woken after a release, takes the permit and sends
\* its request
TaskWake ==
    /\ cpc = "gather"
    /\ waiters # <<>>
    /\ semaphore > 0
    /\ tstate' = [tstate EXCEPT ![Head(waiters)] = "inflight"]
    /\ semaphore' = semaphore - 1
    /\ waiters' = Tail(waiters)
    /\ UNCHANGED <<notRunPod, ccfg, cpc, calls, gpu_pricing_results, reordered, cresult>>

\* the request of a task ends (the client timeout bounds it): the permit is
\* released on leaving the async with, _fetch_gpu_pricing returns the data
\* or None
TaskComplete(t) ==
    /\ cpc = "gather"
    /\ tstate[t] = "inflight"
    /\ \E o \in PricingOutcomes :
         /\ gpu_pricing_results' = [gpu_pricing_results EXCEPT ![t] = PricingResult(o)]
         /\ tstate' = [tstate EXCEPT ![t] = IF o = "error" THEN "failed" ELSE "done"]
    /\ semaphore' = semaphore + 1
    /\ reordered' = (reordered \/ \E u \in 1..(t - 1) : ~Finished(u))
    /\ UNCHANGED <<notRunPod, ccfg, cpc, calls, waiters, cresult>>

\* the failure of one pricing query fails fetch_instances (for comparison)
GatherReturnsRaisingOnFailure ==
    /\ cpc = "gather"
    /\ \A t \in DOMAIN tstate : Finished(t)
    /\ IF \E t \in DOMAIN tstate :
             gpu_pricing_results[t] = "malformed" \/ tstate[t] = "failed"
       THEN FetchRaised
       ELSE FetchReturned(ParseAll(gpu_pricing_results, 1, ccfg.datacenters))
    /\ UNCHANGED <<notRunPod, ccfg, calls, tstate, semaphore, waiters,
                   gpu_pricing_results, reordered>>

\* gather returns when every task is done; step 4 parses the results in
\* task order, and a TypeError of _parse_gpu_data leaves fetch_instances
GatherReturns ==
    /\ cpc = "gather"
    /\ \A t \in DOMAIN tstate : Finished(t)
    /\ IF \E t \in DOMAIN tstate : gpu_pricing_results[t] = "malformed"
       THEN FetchRaised
       ELSE FetchReturned(ParseAll(gpu_pricing_results, 1, ccfg.datacenters))
    /\ UNCHANGED <<notRunPod, ccfg, calls, tstate, semaphore, waiters,
                   gpu_pricing_results, reordered>>

NextRunPod ==
    \/ GetAllGpuTypes
    \/ GetAllDatacenters
    \/ \E t \in DOMAIN tstate : TaskAcquire(t)
    \/ TaskWake
    \/ \E t \in DOMAIN tstate : TaskComplete(t)
    \/ GatherReturns

\* ------------------------------------------------------------------------
\* Two concurrent calls of write_to_local with the same resolved target
\* path (export/outputs.py).  The output directory exists; both calls
\* compute the same output_path and therefore the same temp_path
\* (path.with_suffix(path.suffix + ".tmp")).  A file is an inode; a name of
\* the directory links to it, and an open file keeps writing to its inode
\* whatever the names do.

MaxChunks == 2

Writers == {1, 2}

WriterConfigs == [overwrite : BOOLEAN, compression : {"none", "gzip"}]

\* the k-th chunk of the data of writer w, as temp_path.write_text or
\* gzip.open(temp_path, "wt") stores it
Chunk(w, k, compression) == [writer |-> w, k |-> k, enc |-> compression]

\* the file a call that ran alone leaves at the target path
CompleteFile(w, n, compression) == [k \in 1..n |-> Chunk(w, k, compression)]

\* what a file written before the two calls holds
OldContent == <<[writer |-> 0, k |-> 1, enc |-> "none"]>>

Hole == [writer |-> 0, k |-> 0, enc |-> "none"]

\* write(2) at an offset: the chunk replaces what is there, the file grows
\* when the offset is at or past its end
WriteAt(content, offset, chunk) ==
    [k \in 1..(IF offset + 1 > Len(content) THEN offset + 1 ELSE Len(content)) |->
        IF k = offset + 1 THEN chunk
        ELSE IF k <= Len(content) THEN content[k]
        ELSE Hole]

NoFd == [ino |-> 0, offset |-> 0]

WritersStart ==
    /\ wcfg \in WriterConfigs
    /\ wdata \in [Writers -> 1..MaxChunks]
    /\ \E existing \in BOOLEAN :
         /\ links = [target |-> IF existing THEN 1 ELSE 0, temp |-> 0]
         /\ inodes = IF existing THEN <<OldContent>> ELSE <<>>
    /\ wpc = [w \in Writers |-> "start"]
    /\ wfd = [w \in Writers |-> NoFd]
    /\ werror = [w \in Writers |-> "none"]

IdleWriters ==
    /\ wcfg = [overwrite |-> FALSE, compression |-> "none"]
    /\ wdata = [w \in Writers |-> 1]
    /\ links = [target |-> 0, temp |-> 0]
    /\ inodes = <<>>
    /\ wpc = [w \in Writers |-> "idle"]
    /\ wfd = [w \in Writers |-> NoFd]
    /\ werror = [w \in Writers |-> "none"]

\* if output_path.exists() and not config.overwrite: raise OutputError
CheckOverwrite(w) ==
    /\ wpc[w] = "start"
    /\ IF OverwriteRefused(links.target # 0, wcfg.overwrite)
       THEN /\ wpc' = [wpc EXCEPT ![w] = "raised"]
            /\ werror' = [werror EXCEPT ![w] = "exists"]
       ELSE /\ wpc' = [wpc EXCEPT ![w] = "open"]
            /\ UNCHANGED werror
    /\ UNCHANGED <<wcfg, wdata, links, inodes, wfd>>
    /\ UNCHANGED notWriters

\* open(temp_path, "w"): creates the file, or truncates the one of that name
OpenTempOf(w) ==
    /\ wpc[w] = "open"
    /\ IF links.temp = 0
       THEN /\ inodes' = Append(inodes, <<>>)
            /\ links' = [links EXCEPT !.temp = Len(inodes) + 1]
            /\ wfd' = [wfd EXCEPT ![w] = [ino |-> Len(inodes) + 1, offset |-> 0]]
       ELSE /\ inodes' = [inodes EXCEPT ![links.temp] = <<>>]
            /\ UNCHANGED links
            /\ wfd' = [wfd EXCEPT ![w] = [ino |-> links.temp, offset |-> 0]]
    /\ wpc' = [wpc EXCEPT ![w] = "write"]
    /\ UNCHANGED <<wcfg, wdata, werror>>
    /\ UNCHANGED notWriters

\* one write of the buffered data to the open file
WriteChunk(w) ==
    /\ wpc[w] = "write"
    /\ wfd[w].offset < wdata[w]
    /\ inodes' = [inodes EXCEPT ![wfd[w].ino] =
                    WriteAt(@, wfd[w].offset, Chunk(w, wfd[w].offset + 1, wcfg.compression))]
    /\ wfd' = [wfd EXCEPT ![w].offset = @ + 1]
    /\ UNCHANGED <<wcfg, wdata, links, wpc, werror>>
    /\ UNCHANGED notWriters

\* a write that raises OSError (the disk is full): the file is closed and
\* the except clause entered
WriteFails(w) ==
    /\ wpc[w] = "write"
    /\ wfd[w].offset < wdata[w]
    /\ wfd' = [wfd EXCEPT ![w] = NoFd]
    /\ wpc' = [wpc EXCEPT ![w] = "cleanup"]
    /\ werror' = [werror EXCEPT ![w] = "write"]
    /\ UNCHANGED <<wcfg, wdata, links, inodes>>
    /\ UNCHANGED notWriters

\* the file is closed once all the data is written
CloseTemp(w) ==
    /\ wpc[w] = "write"
    /\ wfd[w].offset = wdata[w]
    /\ wfd' = [wfd EXCEPT ![w] = NoFd]
    /\ wpc' = [wpc EXCEPT ![w] = "replace"]
    /\ UNCHANGED <<wcfg, wdata, links, inodes, werror>>
    /\ UNCHANGED notWriters

\* temp_path.replace(path): FileNotFoundError when the name is gone
ReplaceTemp(w) ==
    /\ wpc[w] = "replace"
    /\ IF links.temp = 0
       THEN /\ wpc' = [wpc EXCEPT ![w] = "cleanup"]
            /\ werror' = [werror EXCEPT ![w] = "replace"]
            /\ UNCHANGED links
       ELSE /\ links' = [target |-> links.temp, temp |-> 0]
            /\ wpc' = [wpc EXCEPT ![w] = "returned"]
            /\ UNCHANGED werror
    /\ UNCHANGED <<wcfg, wdata, inodes, wfd>>
    /\ UNCHANGED notWriters

\* except Exception: if temp_path.exists():
CleanupExists(w) ==
    /\ wpc[w] = "cleanup"
    /\ wpc' = [wpc EXCEPT ![w] = IF links.temp # 0 THEN "unlink" ELSE "raised"]
    /\ UNCHANGED <<wcfg, wdata, links, inodes, wfd, werror>>
    /\ UNCHANGED notWriters

\* temp_path.unlink(), then raise; FileNotFoundError when the name is gone
CleanupUnlink(w) ==
    /\ wpc[w] = "unlink"
    /\ IF links.temp = 0
       THEN /\ werror' = [werror EXCEPT ![w] = "unlink"]
            /\ UNCHANGED links
       ELSE /\ links' = [links EXCEPT !.temp = 0]
            /\ UNCHANGED werror
    /\ wpc' = [wpc EXCEPT ![w] = "raised"]
    /\ UNCHANGED <<wcfg, wdata, inodes, wfd>>
    /\ UNCHANGED notWriters

NextWriters ==
    \/ \E w \in Writers : CheckOverwrite(w)
    \/ \E w \in Writers : OpenTempOf(w)
    \/ \E w \in Writers : WriteChunk(w)
    \/ \E w \in Writers : WriteFails(w)
    \/ \E w \in Writers : CloseTemp(w)
    \/ \E w \in Writers : ReplaceTemp(w)
    \/ \E w \in Writers : CleanupExists(w)
    \/ \E w \in Writers : CleanupUnlink(w)

\* ========================================================== SPECIFICATIONS
Init == PipelineStart /\ IdleRetry /\ IdleHttps /\ IdleNaming /\ IdleLocal /\ IdleFilter /\ IdleMetrics /\ IdleJson /\ IdleRunPod /\ IdleWriters

Next == NextPipeline

\* execute_pipelines
Spec == Init /\ [][Next]_vars

\* with_retry
InitRetry == IdlePipeline /\ RetryStart /\ IdleHttps /\ IdleNaming /\ IdleLocal /\ IdleFilter /\ IdleMetrics /\ IdleJson /\ IdleRunPod /\ IdleWriters

SpecRetry == InitRetry /\ [][NextRetry]_vars

\* write_to_https
InitHttps == IdlePipeline /\ IdleRetry /\ HttpsStart /\ IdleNaming /\ IdleLocal /\ IdleFilter /\ IdleMetrics /\ IdleJson /\ IdleRunPod /\ IdleWriters

SpecHttps == InitHttps /\ [][NextHttps]_vars

\* _apply_filename_pattern
InitNaming == IdlePipeline /\ IdleRetry /\ IdleHttps /\ NamingStart /\ IdleLocal /\ IdleFilter /\ IdleMetrics /\ IdleJson /\ IdleRunPod /\ IdleWriters

SpecNaming == InitNaming /\ [][NextNaming]_vars

\* write_to_local, write_to_s3
InitLocal == IdlePipeline /\ IdleRetry /\ IdleHttps /\ IdleNaming /\ LocalStart /\ IdleFilter /\ IdleMetrics /\ IdleJson /\ IdleRunPod /\ IdleWriters

SpecLocal == InitLocal /\ [][NextLocal]_vars

\* filter_instances
InitFilter == IdlePipeline /\ IdleRetry /\ IdleHttps /\ IdleNaming /\ IdleLocal /\ FilterStart /\ IdleMetrics /\ IdleJson /\ IdleRunPod /\ IdleWriters

SpecFilter == InitFilter /\ [][NextFilter]_vars

\* transform_to_metrics
InitMetrics == IdlePipeline /\ IdleRetry /\ IdleHttps /\ IdleNaming /\ IdleLocal /\ IdleFilter /\ MetricsStart /\ IdleJson /\ IdleRunPod /\ IdleWriters

SpecMetrics == InitMetrics /\ [][NextMetrics]_vars

\* transform_to_json
InitJson == IdlePipeline /\ IdleRetry /\ IdleHttps /\ IdleNaming /\ IdleLocal /\ IdleFilter /\ IdleMetrics /\ JsonStart /\ IdleRunPod /\ IdleWriters

SpecJson == InitJson /\ [][NextJson]_vars

\* RunPodCollector.fetch_instances: the event loop runs every task that can run, and every request ends
InitRunPod == IdlePipeline /\ IdleRetry /\ IdleHttps /\ IdleNaming /\ IdleLocal /\ IdleFilter /\ IdleMetrics /\ IdleJson /\ RunPodStart /\ IdleWriters

SpecRunPod == InitRunPod /\ [][NextRunPod]_vars /\ WF_vars(NextRunPod)

\* two concurrent calls of write_to_local on one target path
InitWriters == IdlePipeline /\ IdleRetry /\ IdleHttps /\ IdleNaming /\ IdleLocal /\ IdleFilter /\ IdleMetrics /\ IdleJson /\ IdleRunPod /\ WritersStart

SpecWriters == InitWriters /\ [][NextWriters]_vars

\* ================================================================== CLAIMS
\* ---------------------------------------------------------------- pipeline
\* the connector invocations of pipeline p, in order
PWrites(p) == SelectSeq(ptrace, LAMBDA e : e.op = "write" /\ e.p = p)

\* the filter and transform stages of pipeline p both returned
StagesSucceeded(p) ==
    \E i \in 1..Len(ptrace) :
        ptrace[i].op = "transform" /\ ptrace[i].p = p /\ ptrace[i].ok

\* the filter or the transform stage of pipeline p raised
StageRaised(p) ==
    \E i \in 1..Len(ptrace) :
        ptrace[i].op \in {"filter", "transform"} /\ ptrace[i].p = p /\ ~ptrace[i].ok

\* C1: in an enabled pipeline whose filter and transform stages succeed,
\* the outputs are attempted one by one in configuration order, each exactly
\* once, whether or not earlier ones raised, and the result holds one outcome
\* entry per configured output in that order, output_count being their number.
C1_EveryOutputAttemptedOnce ==
    /\ \A p \in 1..Len(pipelines) :
         LET w == PWrites(p)
         IN /\ Len(w) <= Len(pipelines[p].outputs)
            /\ \A k \in 1..Len(w) : w[k].o = k
    /\ \A p \in 1..Len(results) :
         StagesSucceeded(p) =>
            LET r == results[p]
                outs == pipelines[p].outputs
                w == PWrites(p)
            IN /\ Len(w) = Len(outs)
               /\ Len(r.outputs) = Len(outs)
               /\ r.output_count = Len(outs)
               /\ \A j \in 1..Len(outs) :
                    /\ r.outputs[j].name = outs[j].name
                    /\ r.outputs[j].type = outs[j].type
                    /\ r.outputs[j].success = w[j].ok

\* a finished pipeline with two outputs whose first output raised and whose
\* second output was still written
C1_Witness ==
    \E p \in 1..Len(results) :
        /\ Len(pipelines[p].outputs) = 2
        /\ StagesSucceeded(p)
        /\ Len(PWrites(p)) = 2
        /\ ~PWrites(p)[1].ok
        /\ PWrites(p)[2].ok

\* a result is a failure when it has a pipeline-level error or failed outputs
PipelineFailed(r) == r.enabled /\ (r.error # None \/ FailedOutputs(r) > 0)

\* C2: execute_pipelines returns one PipelineResult per pipeline definition,
\* in definition order, and every pipeline has been executed to completion
\* whatever happened to the pipelines before it.
C2_OneResultPerPipeline ==
    /\ Len(results) <= Len(pipelines)
    /\ \A i \in 1..Len(results) : results[i].pipeline_name = pipelines[i].name
    /\ ppc = "returned" =>
         /\ Len(results) = Len(pipelines)
         /\ \A i \in 1..Len(pipelines) :
              (pipelines[i].enabled /\ ~StageRaised(i)) =>
                  Len(PWrites(i)) = Len(pipelines[i].outputs)

\* execute_pipelines has returned, the first pipeline failed and the second
\* one ran and wrote an output
C2_Witness ==
    /\ ppc = "returned"
    /\ Len(results) = 2
    /\ PipelineFailed(results[1])
    /\ results[2].enabled
    /\ SuccessfulOutputs(results[2]) >= 1

\* C3: error is set exactly when the filter or transform stage raised; then
\* no connector was invoked, outputs is empty and output_count is 0; a failed
\* output never sets error.
C3_ErrorIffStageRaised ==
    \A p \in 1..Len(results) :
        LET r == results[p]
        IN /\ (r.error # None) <=> StageRaised(p)
           /\ r.error # None =>
                 /\ PWrites(p) = <<>>
                 /\ r.outputs = <<>>
                 /\ r.output_count = 0
           /\ (\E k \in 1..Len(PWrites(p)) : ~PWrites(p)[k].ok) => r.error = None

\* a pipeline with configured outputs whose filter or transform stage raised
C3_Witness ==
    \E p \in 1..Len(results) :
        /\ results[p].error # None
        /\ Len(pipelines[p].outputs) >= 1
        /\ pipelines[p].filters = 1

\* C4: for an enabled pipeline with at least one configured output, success
\* is false when every output failed and true when at least one output
\* succeeded and there is no pipeline-level error.
C4_SuccessReflectsOutputs ==
    \A p \in 1..Len(results) :
        LET r == results[p]
        IN (r.enabled /\ Len(pipelines[p].outputs) >= 1) =>
              /\ (FailedOutputs(r) = r.output_count /\ SuccessfulOutputs(r) = 0)
                     => ~Success(r)
              /\ (SuccessfulOutputs(r) >= 1 /\ r.error = None) => Success(r)

\* --------------------------------------------------------------- with_retry
RTerminal == rpc \in {"returned", "raised"}

\* C5: func is invoked at most max_retries + 1 times; the first success ends
\* the invocations and its value is returned; with max_retries = 0 there is
\* exactly one invocation, no sleep, and the first failure is raised.
C5_AttemptsBounded ==
    /\ Len(RCalls) <= rcfg.max_retries + 1
    /\ \A i \in 1..Len(RCalls) :
         RCalls[i].ok =>
            /\ i = Len(RCalls)
            /\ rpc = "returned"
            /\ rresult = RCalls[i].out
    /\ rpc = "returned" => (Len(RCalls) >= 1 /\ RCalls[Len(RCalls)].ok)
    /\ rcfg.max_retries = 0 =>
         /\ RSleeps = <<>>
         /\ Len(RCalls) <= 1
         /\ RTerminal => Len(RCalls) = 1
         /\ (Len(RCalls) = 1 /\ ~RCalls[1].ok) => rpc = "raised"

\* the wrapper returned at the second call although more retries were left
C5_Witness ==
    /\ rpc = "returned"
    /\ Len(RCalls) = 2
    /\ rcfg.max_retries >= 2

\* C6: a sleep only happens between a failed call and the call that follows
\* it; the first sleep is base_delay and each further one is the previous one
\* times backoff_factor; base_delay 5 and backoff_factor 2 with three
\* failures and a success sleep 5, 10, 20 and return the fourth call's value.
C6_BackoffDelays ==
    /\ \A i \in 1..Len(rtrace) :
         rtrace[i].ev = "sleep" =>
            /\ i > 1
            /\ rtrace[i - 1].ev = "call" /\ ~rtrace[i - 1].ok
            /\ i < Len(rtrace) => rtrace[i + 1].ev = "call"
            /\ i = Len(rtrace) => rpc = "call"
    /\ \A k \in 1..Len(RSleeps) :
         RSleeps[k].out = IF k = 1 THEN rcfg.base_delay
                          ELSE RSleeps[k - 1].out * rcfg.backoff_factor
    /\ (rcfg.base_delay = 5 /\ rcfg.backoff_factor = 2 /\ rpc = "returned"
            /\ Len(RCalls) = 4) =>
         /\ [k \in 1..Len(RSleeps) |-> RSleeps[k].out] = <<5, 10, 20>>
         /\ rresult = [type |-> "value", id |-> 4]

\* three failures, then a success, with base_delay 5 and backoff_factor 2
C6_Witness ==
    /\ rcfg.base_delay = 5
    /\ rcfg.backoff_factor = 2
    /\ rpc = "returned"
    /\ Len(RCalls) = 4

\* C7: every exception type is retried alike until the attempts are used up,
\* and what is raised then is the last call's exception itself.
C7_LastExceptionReraised ==
    /\ \A i \in 1..Len(RCalls) :
         (~RCalls[i].ok /\ i <= rcfg.max_retries) =>
            (rpc \in {"sleep", "call"} \/ Len(RCalls) > i)
    /\ rpc = "raised" =>
         /\ Len(RCalls) = rcfg.max_retries + 1
         /\ \A i \in 1..Len(RCalls) : ~RCalls[i].ok
         /\ rraised = RCalls[Len(RCalls)].out
         /\ rraised = last_exception

\* the attempts are used up after exceptions of two different types
C7_Witness ==
    /\ rpc = "raised"
    /\ rcfg.max_retries >= 1
    /\ \E i, j \in 1..Len(RCalls) : RCalls[i].out.type # RCalls[j].out.type

\* ----------------------------------------------------------- write_to_https
HIdx(ev) == {i \in 1..Len(hlog) : hlog[i].ev = ev}

\* the batch the last logged event belongs to
LastB == hlog[Len(hlog)].b

\* the position of the last request in hlog
LastReq == CHOOSE i \in HIdx("req") : \A j \in HIdx("req") : j <= i
HFailKinds == {"retry_status", "http_error", "transport"}

\* the current batch has used all its attempts and the last one failed
BatchExhaustedNow ==
    /\ last_outcome \in HFailKinds
    /\ hlog[LastReq].x = hcfg.retry_attempts

C9_PerBatchRetryBackoff ==
    /\ \A i \in HIdx("req") :
         /\ hlog[i].x <= hcfg.retry_attempts
         /\ hlog[i].x = 0 <=> (i = 1 \/ hlog[i - 1].ev \in {"batch_delay", "batch_end"})
         /\ hlog[i].x > 0 =>
              /\ hlog[i - 1].ev = "retry_sleep"
              /\ hlog[i - 2] = HEvent("req", hlog[i].b, hlog[i].x - 1)
    /\ \A i \in HIdx("retry_sleep") :
         /\ hlog[i - 1].ev = "req" /\ hlog[i - 1].b = hlog[i].b
         /\ hlog[i].x = IF hlog[i - 1].x = 0 THEN hcfg.retry_delay
                        ELSE hlog[i - 2].x * hcfg.retry_backoff
         /\ i < Len(hlog) => hlog[i + 1] = HEvent("req", hlog[i].b, hlog[i - 1].x + 1)
         /\ i = Len(hlog) => (hpc = "request" /\ hattempt = hlog[i - 1].x + 1)
    /\ (last_outcome \in {"retry_status", "transport"}
            /\ hlog[LastReq].x < hcfg.retry_attempts) =>
         /\ LastReq = Len(hlog) - 1
         /\ hlog[Len(hlog)].ev = "retry_sleep"
         /\ hpc = "request"

\* the second batch is about to be retried for the second time, after a
\* transport error, the first batch having been retried as well
C9_Witness ==
    /\ last_outcome = "transport"
    /\ LastB = 1
    /\ hlog[Len(hlog)].ev = "retry_sleep"
    /\ hlog[LastReq].x = 1
    /\ total_requests >= 2
    /\ \E i \in HIdx("retry_sleep") : hlog[i].b = 0

\* C10: batches are sent one after the other, and the batch delay is slept
\* only between two consecutive batches: never before the first, never after
\* the last, B - 1 times for B batches when batch_delay > 0.
C10_BatchDelayBetweenBatches ==
    /\ \A i \in HIdx("batch_delay") :
         /\ hlog[i].b >= 1
         /\ hlog[i].x = hcfg.batch_delay
         /\ i > 1
         /\ hlog[i - 1].ev = "batch_end" /\ hlog[i - 1].b = hlog[i].b - 1
         /\ i < Len(hlog) => hlog[i + 1] = HEvent("req", hlog[i].b, 0)
         /\ i = Len(hlog) => hpc = "request"
    /\ \A i \in HIdx("req") :
         (hlog[i].x = 0 /\ hlog[i].b >= 1) =>
            \E j \in HIdx("batch_end") :
                j < i /\ j >= i - 2 /\ hlog[j].b = hlog[i].b - 1
    /\ (hpc = "returned" /\ hcfg.batch_delay > 0) =>
         Cardinality(HIdx("batch_delay")) =
             IF Len(batches) = 0 THEN 0 ELSE Len(batches) - 1

\* three batches were sent with a batch delay and write_to_https returned
C10_Witness ==
    /\ hpc = "returned"
    /\ hcfg.batch_delay > 0
    /\ Len(batches) = 3
    /\ Cardinality(HIdx("batch_delay")) = 2

\* C11: when a batch is still failing after retry_attempts + 1 attempts,
\* write_to_https raises OutputError: a call in which a batch was exhausted
\* never returns a summary.
C11_ExhaustionRaisesOutputError ==
    hpc = "returned" =>
        \A i \in HIdx("batch_end") : hlog[i].x # "exhausted"

\* some configured header value refers, anywhere in its text, to a variable
\* that is not set
ReferencesMissingVar ==
    \E i \in 1..Len(hcfg.headers) :
        ReferencedNames(hcfg.headers[i].value) \ environ # {}

\* C17: when a configured header value references ${VAR} and VAR is not in
\* the environment, write_to_https raises OutputError and no request is
\* sent.
C17_MissingEnvVarFailsClosed ==
    ReferencesMissingVar =>
        /\ HIdx("req") = {}
        /\ hpc \in {"start", "raised"}
        /\ hpc = "raised" => hresult.error = "OutputError"

RECURSIVE Flatten(_)
Flatten(ss) == IF ss = <<>> THEN <<>> ELSE Head(ss) \o Flatten(Tail(ss))

\* the payload was parsed and the headers were built
ItemsParsed ==
    /\ hpc # "start"
    /\ hdata.kind # "invalid"
    /\ ~MissingEnvVar(hcfg.headers, environ)

\* C20: the parsed items are split into consecutive batches of the
\* configured size, in order, every item in exactly one batch; with no batch
\* size there is exactly one batch holding every item, whatever the number
\* of items, zero included.
C20_BatchesPartitionItems ==
    ItemsParsed =>
        LET items == ParseItems(hdata)
        IN /\ Flatten(batches) = items
           /\ hcfg.batch_size # NoBatchSize =>
                \A k \in 1..Len(batches) :
                    /\ Len(batches[k]) >= 1
                    /\ Len(batches[k]) <= hcfg.batch_size
                    /\ k < Len(batches) => Len(batches[k]) = hcfg.batch_size
           /\ hcfg.batch_size = NoBatchSize =>
                /\ Len(batches) = 1
                /\ batches[1] = items

\* ------------------------------------------------------- disabled pipeline
\* C18: a disabled pipeline returns at once with enabled = false: no filter,
\* transformer or output connector is invoked for it, outputs is empty and
\* error is unset.
C18_DisabledRunsNoStage ==
    \A p \in 1..Len(pipelines) :
        ~pipelines[p].enabled =>
            /\ \A i \in 1..Len(ptrace) : ptrace[i].p # p
            /\ cur = p => ppc = "loop"
            /\ p <= Len(results) =>
                 /\ results[p].pipeline_name = pipelines[p].name
                 /\ ~results[p].enabled
                 /\ results[p].outputs = <<>>
                 /\ results[p].error = None

\* a disabled pipeline with filters and outputs configured has returned its
\* result, after an enabled pipeline that ran its stages
C18_Witness ==
    /\ Len(results) = 2
    /\ pipelines[1].enabled /\ PWrites(1) # <<>>
    /\ ~pipelines[2].enabled
    /\ pipelines[2].filters > 0
    /\ pipelines[2].outputs # <<>>
    /\ ~results[2].enabled
    /\ instances > 0

\* C19 as stated: the result of a disabled pipeline reports zero for the
\* input count, the filtered count and the output count.
C19_DisabledAllCountsZero ==
    \A p \in 1..Len(results) :
        ~results[p].enabled =>
            /\ results[p].input_count = 0
            /\ results[p].filtered_count = 0
            /\ results[p].output_count = 0

\* C19, amended: the result of a disabled pipeline reports zero for the
\* filtered count and the output count, and the number of input records for
\* the input count.
C19_DisabledCounts ==
    \A p \in 1..Len(results) :
        ~results[p].enabled =>
            /\ results[p].input_count = instances
            /\ results[p].filtered_count = 0
            /\ results[p].output_count = 0

\* a disabled pipeline with outputs configured returned its result for a
\* non-empty input
C19_Witness ==
    /\ instances > 0
    /\ \E p \in 1..Len(results) :
          /\ ~results[p].enabled
          /\ pipelines[p].outputs # <<>>
          /\ results[p].input_count > 0

\* ------------------------------------------------- _apply_filename_pattern
\* the pattern ends with the {provider} placeholder and a provider is given
UsesProvider ==
    /\ nmeta # <<>>
    /\ Len(npattern) >= 3
    /\ SubSeq(npattern, Len(npattern) - 2, Len(npattern)) = <<"{", "provider", "}">>

\* the metadata value handed in, and the text the filename holds in the
\* place of the placeholder
GivenValue == nmeta[1].value
SubstitutedValue ==
    SubSeq(nresult.filename, Len(npattern) - 2, Len(nresult.filename))

\* how a value and the text substituted for it correspond, whatever the
\* characters that count as safe
SanitizedAs(v, t, safe) ==
    /\ Len(t) = Len(v)
    /\ \A i \in 1..Len(v) :
         /\ v[i] \in {"/", "\\"} => t[i] = "_"
         /\ v[i] \notin safe => t[i] = "_"
         /\ v[i] \in safe \ {"."} => t[i] = v[i]
         /\ t[i] \in safe
         /\ t[i] = "." => v[i] = "."
    /\ \A i \in 1..(Len(v) - 1) :
         /\ ~(t[i] = "." /\ t[i + 1] = ".")
         /\ (v[i] = "." /\ v[i + 1] = ".") => (t[i] = "_" \/ t[i + 1] = "_")
    /\ \A i \in 1..Len(v) :
         (/\ v[i] = "."
          /\ i > 1 => v[i - 1] # "."
          /\ i < Len(v) => v[i + 1] # ".") => t[i] = "."

\* C15 as stated: the text substituted for a metadata value is the value
\* with '/' and '\' turned into '_', every '..' into '__' and every
\* character outside [A-Za-z0-9-_.] into '_'; it holds only characters of
\* [A-Za-z0-9-_.] and no '..'.
C15_SanitizedToAsciiSafe ==
    (npc = "done" /\ UsesProvider) =>
        SanitizedAs(GivenValue, SubstitutedValue, AsciiAlnum \cup {"-", "_", "."})

\* C15, amended: the text substituted for a metadata value is the value
\* with '/' and '\' turned into '_', every '..' into '__' and every
\* character that is neither alphanumeric (a letter or digit of any script)
\* nor one of '-', '_', '.' into '_'; it holds only such characters and no
\* '..'.
C15_SanitizedToAlnumSafe ==
    (npc = "done" /\ UsesProvider) =>
        SanitizedAs(GivenValue, SubstitutedValue,
                    AsciiAlnum \cup OtherAlnum \cup {"-", "_", "."})

\* the value ".." was substituted as "__"
C15_Witness ==
    /\ npc = "done"
    /\ UsesProvider
    /\ nresult.kind = "returned"
    /\ GivenValue = <<".", ".">>
    /\ SubstitutedValue = <<"_", "_">>

\* ---------------------------------------------------------- write_to_local
\* the last token of the path's name is ".tmp"
IsTmp(path) ==
    /\ path # <<>>
    /\ Name(path) # <<>>
    /\ Name(path)[Len(Name(path))] = ".tmp"

\* the file the call is to produce
NewFile == File(lcfg.compression, ldata)

\* the filename was resolved by the local connector
LocalResolved ==
    /\ lcfg.type = "local"
    /\ ~HasPlaceholder(Filename(lcfg.filename_pattern, lmeta))

\* path holds the file it held when the call started, or no file
FileKept(path) ==
    /\ IsFile(fs, path) <=> IsFile(fs0, path)
    /\ IsFile(fs, path) => fs[Resolve(path)] = fs0[Resolve(path)]

\* C12: when the write fails while the temp file is opened or written or
\* while it is renamed, no .tmp file is left and the target path is absent
\* or holds what it held before; at no time does the target hold part of
\* the data.
C12_FailedWriteLeavesNoTrace ==
    /\ (lpc = "raised" /\ lfault \in {"open", "write", "rename"}) =>
         /\ \A q \in DOMAIN fs : ~IsTmp(q)
         /\ FileKept(output_path)
    /\ (LocalResolved /\ IsFile(fs, OutputPath(lcfg, lmeta))) =>
         \/ FileKept(OutputPath(lcfg, lmeta))
         \/ fs[Resolve(OutputPath(lcfg, lmeta))] = NewFile

\* the write over an existing file failed after half of the data was in
\* the temp file; the call has raised
C12_Witness ==
    /\ lpc = "raised"
    /\ lfault = "write"
    /\ ldata # <<>>
    /\ lcfg.overwrite
    /\ IsFile(fs0, output_path)
    /\ fs[Resolve(output_path)] = OldFile
    /\ IsFile(fs0, temp_path)

\* C13: when the target exists and overwrite is disabled, write_to_local
\* raises OutputError and no file is changed or created; with overwrite
\* enabled the call only fails on an I/O failure, and when it returns the
\* target holds the new data.
C13_OverwriteProtection ==
    (LocalResolved /\ IsFile(fs0, OutputPath(lcfg, lmeta))) =>
        /\ ~lcfg.overwrite =>
             /\ fs = fs0
             /\ lpc \in {"start", "raised"}
             /\ lpc = "raised" => lresult.error = "OutputError"
        /\ (lcfg.overwrite /\ lpc = "returned") =>
             fs[Resolve(OutputPath(lcfg, lmeta))] = NewFile
        /\ (lcfg.overwrite /\ lpc = "raised") => lfault # "none"

\* the existing file was protected: the call raised and the file is there
C13_Witness ==
    /\ lpc = "raised"
    /\ LocalResolved
    /\ ~lcfg.overwrite
    /\ lfault = "none"
    /\ ldata # <<>>
    /\ IsFile(fs0, OutputPath(lcfg, lmeta))
    /\ fs[Resolve(OutputPath(lcfg, lmeta))] = OldFile

\* the paths whose content differs from what it was when the call started
Touched ==
    {q \in DOMAIN fs \cup DOMAIN fs0 :
        q \notin DOMAIN fs \/ q \notin DOMAIN fs0 \/ fs[q] # fs0[q]}

\* C14: with a filename pattern that has no path separator, whatever the
\* metadata, write_to_local writes only in the output directory: every path
\* it creates, changes or removes, and the path it returns, has the output
\* directory as its parent.
C14_WritesStayInOutputDir ==
    (lcfg.type = "local" /\ ~HasSlash(lcfg.filename_pattern)) =>
        /\ \A q \in Touched : q = OutputDir \/ Parent(q) = OutputDir
        /\ lpc = "returned" =>
             /\ Parent(lresult.path) = OutputDir
             /\ Resolve(lresult.path) = lresult.path

\* C16: when a {...} placeholder is left in the filename, the write fails
\* with OutputError: no file is created or changed and no object is put.
C16_UnsubstitutedWritesNothing ==
    HasPlaceholder(Filename(lcfg.filename_pattern, lmeta)) =>
        /\ lpc \in {"start", "raised"}
        /\ lpc = "raised" => lresult.error = "OutputError"
        /\ bucket = {}
        /\ \A q \in Touched : q \in DOMAIN fs /\ fs[q] = Dir

\* the local connector raised on "{date}_{region}" after it had created the
\* output directory
C16_Witness ==
    /\ lpc = "raised"
    /\ lfault = "none"
    /\ lcfg.type = "local"
    /\ HasPlaceholder(Filename(lcfg.filename_pattern, lmeta))
    /\ lmeta # <<>>
    /\ ~Exists(fs0, OutputDir)
    /\ Exists(fs, OutputDir)

\* C25: only a status listed in retry_on_status, or a transport error, leads
\* to another attempt of the same batch: after an answer with an error
\* status that is not listed the retry loop of the batch is over.
C25_NonRetryableStatusSentOnce ==
    last_outcome = "http_error" => hpc # "request"

\* C26: on a normal return every batch is counted once, as successful or
\* failed: successful_requests + failed_requests = total_requests = number
\* of batches, and total_items is the number of parsed items.
C26_CountsConsistent ==
    hpc = "returned" =>
        /\ hresult.successful_requests + hresult.failed_requests
               = hresult.total_requests
        /\ hresult.total_requests = Len(batches)
        /\ hresult.total_items = Len(ParseItems(hdata))

\* --------------------------------------------------------- filter_instances
\* every clause of the list evaluates to true for the instance
PassesAll(instance) ==
    \A j \in 1..Len(filters) : ApplyFilter(instance, filters[j]) = "True"

\* C21: filter_instances returns exactly the instances for which every
\* clause is true, in their original order; with an empty clause list the
\* result is the input list. While the loop runs, filtered holds exactly
\* those of the instances seen so far.
C21_FilterKeepsPassingInOrder ==
    /\ fpc = "loop" =>
         ffiltered = SelectSeq(SubSeq(finstances, 1, fidx - 1), PassesAll)
    /\ fpc = "returned" =>
         /\ fresult.value = SelectSeq(finstances, PassesAll)
         /\ filters = <<>> => fresult.value = finstances

\* two clauses were applied to two instances: the first instance was
\* dropped by the second clause, the second instance was kept
C21_Witness ==
    /\ fpc = "returned"
    /\ Len(filters) = 2
    /\ Len(finstances) = 2
    /\ ApplyFilter(finstances[1], filters[1]) = "True"
    /\ ApplyFilter(finstances[1], filters[2]) = "False"
    /\ fresult.value = <<finstances[2]>>
    /\ finstances[1] # finstances[2]

ComparisonOperators == {"lt", "lte", "gt", "gte", "between"}

\* the clause is a comparison on a field that is null on the instance
ComparesNull(instance, fc) ==
    /\ fc.operator \in ComparisonOperators
    /\ fc.field \in DOMAIN instance
    /\ instance[fc.field] = FNull

\* C22: a comparison clause (lt, lte, gt, gte, between) on a field whose
\* value is null evaluates to false and does not raise, whatever the
\* operand; an instance with such a clause is never kept and is never the
\* instance at which filter_instances raises.
C22_NullComparisonIsFalse ==
    /\ \A i \in 1..Len(finstances) : \A j \in 1..Len(filters) :
         ComparesNull(finstances[i], filters[j]) =>
             ApplyFilter(finstances[i], filters[j]) = "False"
    /\ \A i \in 1..Len(finstances) :
         (Len(filters) = 1 /\ ComparesNull(finstances[i], filters[1])) =>
             /\ fpc = "raised" => fidx # i
             /\ \A k \in 1..Len(ffiltered) : ffiltered[k] # finstances[i]

\* a clause "accelerator_mem_gib < [1]" was applied to an instance whose
\* accelerator_mem_gib is null, and filter_instances returned without it
C22_Witness ==
    /\ fpc = "returned"
    /\ Len(filters) = 1
    /\ filters[1].operator = "lt"
    /\ filters[1].value = FList
    /\ Len(finstances) = 1
    /\ ComparesNull(finstances[1], filters[1])
    /\ fresult.value = <<>>

\* ----------------------------------------------------- transform_to_metrics
\* the metric has a usable source field, and no instance has a non-null
\* value of it
NoValuesCase ==
    /\ mcfg.type # "count"
    /\ mcfg.field \notin {None, ""}
    /\ mcfg.group_by = None
    /\ FieldValues(minstances, mcfg.field) = <<>>

\* C23 as stated: with no non-null value of the source field, avg, min, max
\* and sum yield null and unique yields 0.
C23_NoValuesNullOrZero ==
    (mpc # "start" /\ NoValuesCase) =>
        /\ mpc = "returned"
        /\ mcfg.type \in {"avg", "min", "max", "sum"} => mresult.value = MNull
        /\ mcfg.type = "unique" => mresult.value = MNum(0)

\* C23 amended: with no non-null value of the source field, avg, min, max,
\* sum and unique all yield null (nulls are dropped, not counted as zero).
C23_NoValuesNull ==
    (mpc # "start" /\ NoValuesCase) =>
        /\ mpc = "returned"
        /\ mresult.value = MNull

\* unique was computed over two instances whose accelerator_mem_gib is null
C23_Witness ==
    /\ mpc = "returned"
    /\ NoValuesCase
    /\ mcfg.type = "unique"
    /\ mcfg.field = "accelerator_mem_gib"
    /\ Len(minstances) = 2
    /\ mresult.value = MNull

\* -------------------------------------------------------- transform_to_json
\* a rename map is supplied (an empty map counts as none)
HasRenameMap == ~jcfg.fields.none /\ jcfg.fields.items # <<>>

\* what the null handling makes of a value
NullHandled(v) == IF v = FNull /\ jcfg.null_handling = "empty" THEN FStr(<<>>) ELSE v

\* C24: with a rename map every key of an output object is the alias of a
\* named source field and carries that field's value, and the raw data of
\* the record is never emitted, whatever the rename map and
\* include_raw_data are.
C24_RenameMapSelectsAndDropsRaw ==
    (jpc = "returned" /\ HasRenameMap) =>
        \A i \in 1..Len(jinstances) :
            LET obj == jresult.value[i]
                items == jcfg.fields.items
            IN /\ \A k \in DOMAIN obj : \E x \in 1..Len(items) :
                    /\ items[x].alias = k
                    /\ items[x].source \in DOMAIN jinstances[i]
                    /\ obj[k] = NullHandled(jinstances[i][items[x].source])
               /\ \A k \in DOMAIN obj : obj[k] # FDict

\* the resolved path lies in the output directory
InOutputDir(q) ==
    Len(q) > Len(OutputDir) /\ SubSeq(q, 1, Len(OutputDir)) = OutputDir

\* C29: with overwrite disabled, once write_to_local has returned or raised
\* every file that was in the output directory before the call, the one
\* named like the target followed by ".tmp" included, is still there with
\* the same content.
C29_OtherFilesKept ==
    (lcfg.type = "local" /\ ~lcfg.overwrite /\ lpc \in {"returned", "raised"}) =>
        \A q \in DOMAIN fs0 :
            (fs0[q].kind = "file" /\ InOutputDir(q)) =>
                q \in DOMAIN fs /\ fs[q] = fs0[q]

\* --------------------------------------------- RunPodCollector.fetch_instances
\* C27: at every moment at most MAX_CONCURRENT_REQUESTS = 3 requests of the
\* collector are in flight, however many pricing tasks were gathered, and
\* every gathered task eventually gets its permit and completes.
C27_AtMostThreeInFlight ==
    /\ [](MAX_CONCURRENT_REQUESTS = 3 /\ Cardinality(InFlight) <= 3)
    /\ \A t \in 1..MaxGpuTypes :
         (t \in DOMAIN tstate /\ tstate[t] \in {"created", "waiting"})
             ~> (t \in DOMAIN tstate /\ Finished(t))

\* four tasks were gathered: three requests are in flight, the fourth task
\* waits for the semaphore
C27_Witness ==
    /\ cpc = "gather"
    /\ Len(tstate) = 4
    /\ Cardinality(InFlight) = 3
    /\ waiters # <<>>
    /\ semaphore = 0

\* the instances of the GPU types whose query returned data, in the order
\* of the GPU types and, within a type, of the datacenters
ExpectedInstances ==
    LET n == ccfg.gpu_types
        d == ccfg.datacenters
        all == [k \in 1..(n * d) |->
                   [instance_type |-> ((k - 1) \div d) + 1, region |-> ((k - 1) % d) + 1]]
    IN SelectSeq(all, LAMBDA i : gpu_pricing_results[i.instance_type] = "data")

\* C28: when the pricing queries have ended and some have failed,
\* fetch_instances returns (it does not raise and with_retry does not call
\* it again) the instances of every GPU type whose query succeeded, in
\* GPU-type order whatever the order of completion was.
C28_PartialFailureReturnsTheRest ==
    [][(/\ cpc = "gather"
        /\ cpc' # "gather"
        /\ \A t \in DOMAIN tstate : gpu_pricing_results[t] # "malformed")
           => /\ cpc' = "returned"
              /\ calls' = calls
              /\ cresult'.instances = ExpectedInstances]_vars

\* of three pricing queries the second failed and the third ended before
\* the first; the first call of fetch_instances returned the instances of
\* the first and the third
C28_Witness ==
    /\ cpc = "returned"
    /\ calls = 1
    /\ Len(tstate) = 3
    /\ tstate[1] = "done" /\ tstate[2] = "failed" /\ tstate[3] = "done"
    /\ gpu_pricing_results = <<"data", None, "data">>
    /\ reordered
    /\ Len(cresult.instances) = 4
    /\ cresult.instances[1].instance_type = 1
    /\ cresult.instances[4].instance_type = 3

\* no temp file is left once both writers have finished
WritersFinished == \A w \in Writers : wpc[w] \in {"returned", "raised"}
WritersLeaveNoTemp == WritersFinished => links.temp = 0

\* C30: when two writers run write_to_local concurrently on the same target
\* path, the target, whenever it exists, holds the complete payload of
\* exactly one writer (or the file that was there before them), never
\* partial or mixed content, and no .tmp file remains once both have
\* finished.
C30_TargetCompleteOfOneWriter ==
    /\ (\E w \in Writers : wpc[w] # "idle") /\ links.target # 0
         => inodes[links.target] \in
               {CompleteFile(w, wdata[w], wcfg.compression) : w \in Writers}
               \cup {OldContent}
    /\ WritersLeaveNoTemp
====
